---------------------------- MODULE Spec2Model ----------------------------
(***************************************************************************)
(* Viscous wall treatment of the SU2 Navier-Stokes solvers:                *)
(*   - CNSSolver::SetTau_Wall_WF, the wall-function Newton iteration,      *)
(*   - the wall boundary kernels of CNSSolver and CIncNSSolver.            *)
(*                                                                         *)
(* Real numbers (su2double) are exact rationals <<n, d>>, d > 0, in lowest *)
(* terms.  Square roots are taken of perfect squares only.  The            *)
(* transcendental parts of the law of the wall (exp, asin, pow) are a      *)
(* choice among candidate values; every algebraic part is computed.        *)
(***************************************************************************)
EXTENDS Integers, Sequences, FiniteSets, TLC

-----------------------------------------------------------------------------
(* Exact rational arithmetic                                               *)

Abs(n) == IF n < 0 THEN -n ELSE n

RECURSIVE GCD(_, _)
GCD(a, b) == IF b = 0 THEN a ELSE GCD(b, a % b)

R(n, d) ==
  LET s == IF d < 0 THEN -1 ELSE 1
      g == GCD(Abs(n), Abs(d))
  IN  <<(s * n) \div g, (s * d) \div g>>

I(n) == <<n, 1>>
Zero == I(0)
One == I(1)

(* Each operand is bound once, as a value, before it is used. *)
RAdd(a, b) ==
  CHOOSE r \in {R(x[1] * y[2] + y[1] * x[2], x[2] * y[2]) : x \in {a}, y \in {b}} : TRUE
RNeg(a) == CHOOSE r \in {<<-x[1], x[2]>> : x \in {a}} : TRUE
RSub(a, b) ==
  CHOOSE r \in {R(x[1] * y[2] - y[1] * x[2], x[2] * y[2]) : x \in {a}, y \in {b}} : TRUE
RMul(a, b) ==
  CHOOSE r \in {R(x[1] * y[1], x[2] * y[2]) : x \in {a}, y \in {b}} : TRUE
RDiv(a, b) ==
  CHOOSE r \in {R(x[1] * y[2], x[2] * y[1]) : x \in {a}, y \in {b}} : TRUE
RLt(a, b) == \E x \in {a}, y \in {b} : x[1] * y[2] < y[1] * x[2]
RMax(a, b) == CHOOSE r \in {IF RLt(x, y) THEN y ELSE x : x \in {a}, y \in {b}} : TRUE
RAbs(a) == CHOOSE r \in {<<Abs(x[1]), x[2]>> : x \in {a}} : TRUE
RSq(a) == CHOOSE r \in {RMul(x, x) : x \in {a}} : TRUE

ISqrt(n) == CHOOSE r \in 0..n : r * r = n
RSqrt(a) == CHOOSE r \in {<<ISqrt(x[1]), ISqrt(x[2])>> : x \in {a}} : TRUE

RECURSIVE DivPow10(_, _)
DivPow10(d, e) == IF e = 0 THEN d ELSE DivPow10(d \div 10, e - 1)

(* a > 10^-e for a >= 0, without forming 10^e *)
GtPow10(a, e) == \E x \in {a} : x[1] > DivPow10(x[2], e)


-----------------------------------------------------------------------------
(* Bounds of the model                                                     *)

NumMarker == 2
NumVertex == 1
MaxCalls == 1
MaxIterCap == 2
MaxBCCalls == 1
NumThreads == 2
NumRanks == 2
MaxParCalls == 2
NumParVertex == 2

Markers == 1..NumMarker
Vertices == 1..NumVertex

(* geometry->vertex[iMarker][iVertex]->GetNode() *)
NodeOf(m, v) == (m - 1) * NumVertex + v
Points == 1..(NumMarker * NumVertex)

VARIABLES
  config,               \* CConfig values read by SetTau_Wall_WF
  Domain,               \* geometry->nodes->GetDomain(iPoint)
  Temperature,          \* nodes->GetTemperature / SetTemperature, per point
  Tau_Wall,             \* nodes->SetTau_Wall, per point
  YPlus,                \* YPlus[iMarker][iVertex]
  EddyViscWall,         \* EddyViscWall[iMarker][iVertex]
  UTau,                 \* UTau[iMarker][iVertex]
  pc,                   \* position inside SetTau_Wall_WF
  iMarker,
  iVertex,
  loc,                  \* locals of the vertex being processed
  notConvergedCounter,
  smallYPlusCounter,
  reported,             \* what the master rank printed after the reduction
  nCalls,
  last                  \* history: the vertex handled most recently

wfVars == <<config, Domain, Temperature, Tau_Wall, YPlus, EddyViscWall, UTau,
            pc, iMarker, iVertex, loc, notConvergedCounter, smallYPlusCounter,
            reported, nCalls, last>>

VARIABLES
  bcfg,                 \* CConfig and solver settings read by the wall kernels
  LinSysRes,            \* LinSysRes(iPoint, iVar)
  Jacobian,             \* the matrix rows of each point
  Velocity_Old,         \* nodes->SetVelocity_Old(iPoint, .)
  Solution_Old,         \* nodes->SetSolution_Old(iPoint, iVar, .)
  bpc,                  \* position inside the running wall kernel
  call,                 \* the kernel called and the marker settings it reads
  bloc,                 \* locals of the running kernel, Jacobian_i among them
  iVertexBC,
  nBCCalls,
  blast                 \* history: the vertex a kernel handled most recently

bcVars == <<bcfg, LinSysRes, Jacobian, Velocity_Old, Solution_Old, bpc, call,
            bloc, iVertexBC, nBCCalls, blast>>

VARIABLES
  routine,              \* the routine of the solver a run exercises
  Imposed_Temperature,  \* CNSSolver::Imposed_Temperature, set by the blowing kernel
  turbCall,             \* the kernel a CTurbSolver dispatcher has called
  allreduced,           \* the quantities SU2_MPI::Allreduce was called for, this call
  mon,                  \* Buffet_Monitoring: its position and the buffet metrics
  sst,                  \* one evaluation of the SST axisymmetric source term
  pure,                 \* one evaluation of another routine taken on its own
  par                   \* the threads and partitions of a parallel pass

kxVars == <<Imposed_Temperature, turbCall>>
monVars == <<allreduced, mon>>
sstVars == <<sst>>
pureVars == <<pure>>
parVars == <<par>>
xVars == <<routine, kxVars, monVars, sstVars, pureVars, parVars>>

-----------------------------------------------------------------------------
(* CNSSolver::SetTau_Wall_WF                                               *)

(* The marker list of the configuration: the first marker is a viscous wall
   with the standard wall function, heat-flux or isothermal; behind it come
   a viscous wall without wall function and walls that are not viscous. *)
MarkerLayout(kind) ==
  [m \in Markers |->
     IF m = 1
       THEN [Viscous_Wall |-> TRUE, WallFunction |-> "STANDARD_FUNCTION", KindBC |-> kind]
       ELSE IF m = 2
         THEN [Viscous_Wall |-> TRUE, WallFunction |-> "NO_WALL_FUNCTION",
               KindBC |-> "HEAT_FLUX"]
         ELSE [Viscous_Wall |-> FALSE, WallFunction |-> "NO_WALL_FUNCTION",
               KindBC |-> "EULER_WALL"]]

WallKinds == {"HEAT_FLUX", "ISOTHERMAL"}

(* the partition owns every wall point, or all but the last vertex of a marker *)
DomainLayouts ==
  { [p \in Points |-> TRUE],
    [p \in Points |-> p % NumVertex # 0] }

MinYPlusValues == {I(5)}
CommLevels == {"COMM_FULL", "COMM_NONE"}

(* values the flow state takes at a wall vertex when the routine reads it *)
WallShearStressValues == {I(0), I(4)}
WallDistValues == {I(10)}
T_NormalValues == {I(1)}
P_NormalValues == {I(1)}
Lam_Visc_WallValues == {I(1)}
Gas_Constant == I(1)

(* candidate values of the transcendental expressions of one Newton step *)
(*   denum   : 1 + Beta*U_Plus - Gam*U_Plus^2
     law     : the blended y+ of Spalding and White is the root of f, or is not
     eddyRaw : the eddy viscosity before the 1e-6 floor
     uNewton : U_Tau - relax*diff/grad_diff when diff # 0                     *)
NewtonCases ==
  { [denum |-> R(1, 4), law |-> "root", eddyRaw |-> I(3),  uNewton |-> I(2)],
    [denum |-> Zero,    law |-> "root", eddyRaw |-> I(-1), uNewton |-> I(2)],
    [denum |-> R(1, 4), law |-> "off",  eddyRaw |-> I(-1), uNewton |-> I(2)],
    [denum |-> Zero,    law |-> "off",  eddyRaw |-> I(3),  uNewton |-> I(2)] }
YPlusOff == I(50)

LocNone ==
  [counter |-> 0, diff |-> Zero, U_Tau |-> Zero, Y_Plus |-> Zero,
   Eddy_Visc_Wall |-> Zero, T_Wall |-> Zero, Density_Wall |-> Zero,
   P_Wall |-> Zero, T_Normal |-> Zero, WallDistMod |-> Zero,
   Lam_Visc_Wall |-> Zero]

LastNone ==
  [outcome |-> "none", marker |-> 0, vertex |-> 0, point |-> 0,
   preSmall |-> 0, preNotConv |-> 0,
   Y_Plus_Start |-> Zero, nNewton |-> 0, capped |-> FALSE, lastDiff |-> Zero,
   wroteT |-> FALSE]

(* the history counter of Newton updates stops counting past the cap *)
Saturate(n) == IF n > MaxIterCap + 2 THEN MaxIterCap + 2 ELSE n

(* fabs(diff) > tol, tol = 1e-12 *)
ExceedsTol(diff) == GtPow10(RAbs(diff), 12)

(* a denominator of zero let through *)
GtEPS_mut(denum) == ~RLt(denum, Zero)

(* denum > EPS, EPS = 1e-16 *)
GtEPS(denum) == GtPow10(denum, 16)

(* the floor left out *)
Floor1em6_mut(x) == x

(* max(1.0e-6, x) *)
Floor1em6(x) == RMax(R(1, 1000000), x)

(* P_Wall / (Gas_Constant * T_Wall) *)
WallDensity(P_Wall, T_Wall) == RDiv(P_Wall, RMul(Gas_Constant, T_Wall))

(* Density_Wall * U_Tau * WallDistMod / Lam_Visc_Wall *)
YPlusOf(Density_Wall, U_Tau, WallDistMod, Lam_Visc_Wall) ==
  RDiv(RMul(RMul(Density_Wall, U_Tau), WallDistMod), Lam_Visc_Wall)

(* max(1.0e-6, sqrt(WallShearStress / Density_Wall)) *)
UTauStart(WallShearStress, Density_Wall) ==
  Floor1em6(RSqrt(RDiv(WallShearStress, Density_Wall)))

(* the comparison turned around *)
SmallYPlus_mut(Y_Plus_Start, MinYPlus) == RLt(MinYPlus, Y_Plus_Start)

(* Y_Plus_Start < config->GetwallModel_MinYPlus() *)
SmallYPlus(Y_Plus_Start, MinYPlus) == RLt(Y_Plus_Start, MinYPlus)

(* counter > max_iter, evaluated after counter++ *)
IterCapReached(counter, max_iter) == counter > max_iter

(* the increment left out *)
NextCounter_mut(counter) == counter

(* counter++ *)
NextCounter(counter) == counter + 1

(* (1.0 / Density_Wall) * pow(Y_Plus * Lam_Visc_Wall / WallDistMod, 2.0) *)
TauWallOf(Density_Wall, Y_Plus, Lam_Visc_Wall, WallDistMod) ==
  RMul(RDiv(One, Density_Wall), RSq(RDiv(RMul(Y_Plus, Lam_Visc_Wall), WallDistMod)))

(* the clipping value Y_Plus starts from is kept *)
FallbackYPlus_mut == R(495, 100)

FallbackYPlus == I(30)
FallbackEddyVisc == One
FallbackUTau == One

InitWFState ==
  /\ config \in [max_iter : 1..MaxIterCap,
                 MinYPlus : MinYPlusValues,
                 Comm_Level : CommLevels,
                 Marker : {MarkerLayout(k) : k \in WallKinds}]
  /\ Domain \in DomainLayouts
  /\ Temperature = [p \in Points |-> One]
  /\ Tau_Wall = [p \in Points |-> I(-1)]
  /\ YPlus = [m \in Markers |-> [v \in Vertices |-> Zero]]
  /\ EddyViscWall = [m \in Markers |-> [v \in Vertices |-> Zero]]
  /\ UTau = [m \in Markers |-> [v \in Vertices |-> Zero]]
  /\ pc = "idle"
  /\ iMarker = 0
  /\ iVertex = 0
  /\ loc = LocNone
  /\ notConvergedCounter = 0
  /\ smallYPlusCounter = 0
  /\ reported = [notConverged |-> 0, smallYPlus |-> 0]
  /\ nCalls = 0
  /\ last = LastNone

(* entry: the two local counters start at zero *)
SetTau_Call ==
  /\ UNCHANGED <<bcVars, routine, kxVars, mon, sstVars, pureVars, parVars>>
  /\ allreduced' = <<>>
  /\ pc = "idle"
  /\ nCalls < MaxCalls
  /\ pc' = "marker"
  /\ iMarker' = 1
  /\ iVertex' = 0
  /\ notConvergedCounter' = 0
  /\ smallYPlusCounter' = 0
  /\ last' = LastNone
  /\ UNCHANGED <<config, Domain, Temperature, Tau_Wall, YPlus, EddyViscWall, UTau,
                 loc, reported, nCalls>>

(* head of the marker loop, with its two continue statements *)
SetTau_Marker ==
  /\ UNCHANGED <<bcVars, xVars>>
  /\ pc = "marker"
  /\ IF iMarker > NumMarker
       THEN /\ pc' = "reduce"
            /\ UNCHANGED <<iMarker, iVertex>>
       ELSE IF ~config.Marker[iMarker].Viscous_Wall
                 \/ config.Marker[iMarker].WallFunction # "STANDARD_FUNCTION"
              THEN /\ iMarker' = iMarker + 1
                   /\ UNCHANGED <<pc, iVertex>>
              ELSE /\ pc' = "vertex"
                   /\ iVertex' = 1
                   /\ UNCHANGED iMarker
  /\ UNCHANGED <<config, Domain, Temperature, Tau_Wall, YPlus, EddyViscWall, UTau,
                 loc, notConvergedCounter, smallYPlusCounter, reported, nCalls, last>>

(* head of the vertex loop up to the start of the Newton loop *)
SetTau_Vertex ==
  /\ UNCHANGED <<bcVars, xVars>>
  /\ pc = "vertex"
  /\ IF iVertex > NumVertex
       THEN /\ pc' = "marker"
            /\ iMarker' = iMarker + 1
            /\ UNCHANGED <<iVertex, loc, smallYPlusCounter, last>>
       ELSE
         \E WallShearStress \in WallShearStressValues, WallDistMod \in WallDistValues,
            T_Normal \in T_NormalValues, P_Normal \in P_NormalValues,
            Lam_Visc_Wall \in Lam_Visc_WallValues :
           LET iPoint == NodeOf(iMarker, iVertex)
               T_Wall == Temperature[iPoint]
               P_Wall == P_Normal
               Density_Wall == WallDensity(P_Wall, T_Wall)
               U_Tau == UTauStart(WallShearStress, Density_Wall)
               Y_Plus_Start == YPlusOf(Density_Wall, U_Tau, WallDistMod, Lam_Visc_Wall)
               seen == [LastNone EXCEPT
                          !.marker = iMarker, !.vertex = iVertex, !.point = iPoint,
                          !.preSmall = smallYPlusCounter,
                          !.preNotConv = notConvergedCounter]
           IN  /\ UNCHANGED iMarker
               /\ IF ~Domain[iPoint]
                    THEN /\ iVertex' = iVertex + 1
                         /\ last' = [seen EXCEPT !.outcome = "halo"]
                         /\ UNCHANGED <<pc, loc, smallYPlusCounter>>
                    ELSE IF SmallYPlus(Y_Plus_Start, config.MinYPlus)
                      THEN /\ smallYPlusCounter' = smallYPlusCounter + 1
                           /\ iVertex' = iVertex + 1
                           /\ last' = [seen EXCEPT !.outcome = "skipped",
                                                   !.Y_Plus_Start = Y_Plus_Start]
                           /\ UNCHANGED <<pc, loc>>
                      ELSE /\ loc' = [counter |-> 0, diff |-> One, U_Tau |-> U_Tau,
                                      Y_Plus |-> RMul(R(99, 100), config.MinYPlus),
                                      Eddy_Visc_Wall |-> Zero,
                                      T_Wall |-> T_Wall, Density_Wall |-> Density_Wall,
                                      P_Wall |-> P_Wall, T_Normal |-> T_Normal,
                                      WallDistMod |-> WallDistMod,
                                      Lam_Visc_Wall |-> Lam_Visc_Wall]
                           /\ pc' = IF ExceedsTol(One) THEN "newton" ELSE "store"
                           /\ last' = [seen EXCEPT !.outcome = "iterating",
                                                   !.Y_Plus_Start = Y_Plus_Start]
                           /\ UNCHANGED <<iVertex, smallYPlusCounter>>
  /\ UNCHANGED <<config, Domain, Temperature, Tau_Wall, YPlus, EddyViscWall, UTau,
                 notConvergedCounter, reported, nCalls>>

(* one pass through the body of while (fabs(diff) > tol) *)
SetTau_Newton ==
  /\ UNCHANGED <<bcVars, xVars>>
  /\ pc = "newton"
  /\ \E c \in NewtonCases :
       LET iPoint == NodeOf(iMarker, iVertex)
           writeT == config.Marker[iMarker].KindBC # "ISOTHERMAL" /\ GtEPS(c.denum)
           T_Wall == IF writeT THEN RDiv(loc.T_Normal, c.denum) ELSE loc.T_Wall
           Density_Wall == WallDensity(loc.P_Wall, T_Wall)
           lhs == YPlusOf(Density_Wall, loc.U_Tau, loc.WallDistMod, loc.Lam_Visc_Wall)
           Y_Plus == IF c.law = "root" THEN lhs ELSE YPlusOff
           Eddy_Visc_Wall == Floor1em6(c.eddyRaw)
           diff == RSub(lhs, Y_Plus)
           U_Tau == IF diff = Zero THEN loc.U_Tau ELSE c.uNewton
           counter == NextCounter(loc.counter)
           capped == IterCapReached(counter, config.max_iter)
       IN  /\ Temperature' = IF writeT THEN [Temperature EXCEPT ![iPoint] = T_Wall]
                                        ELSE Temperature
           /\ loc' = [loc EXCEPT
                        !.counter = counter, !.diff = diff,
                        !.T_Wall = T_Wall, !.Density_Wall = Density_Wall,
                        !.Y_Plus = IF capped THEN FallbackYPlus ELSE Y_Plus,
                        !.Eddy_Visc_Wall = IF capped THEN FallbackEddyVisc
                                                     ELSE Eddy_Visc_Wall,
                        !.U_Tau = IF capped THEN FallbackUTau ELSE U_Tau]
           /\ notConvergedCounter' = IF capped THEN notConvergedCounter + 1
                                               ELSE notConvergedCounter
           /\ pc' = IF capped \/ ~ExceedsTol(diff) THEN "store" ELSE "newton"
           /\ last' = [last EXCEPT !.nNewton = Saturate(@ + 1), !.capped = capped,
                                   !.lastDiff = diff, !.wroteT = @ \/ writeT]
  /\ UNCHANGED <<config, Domain, Tau_Wall, YPlus, EddyViscWall, UTau, iMarker, iVertex,
                 smallYPlusCounter, reported, nCalls>>

(* after the Newton loop: the three caches and the wall shear stress *)
SetTau_Store ==
  /\ UNCHANGED <<bcVars, xVars>>
  /\ pc = "store"
  /\ YPlus' = [YPlus EXCEPT ![iMarker][iVertex] = loc.Y_Plus]
  /\ EddyViscWall' = [EddyViscWall EXCEPT ![iMarker][iVertex] = loc.Eddy_Visc_Wall]
  /\ UTau' = [UTau EXCEPT ![iMarker][iVertex] = loc.U_Tau]
  /\ Tau_Wall' = [Tau_Wall EXCEPT ![NodeOf(iMarker, iVertex)] =
                    TauWallOf(loc.Density_Wall, loc.Y_Plus, loc.Lam_Visc_Wall,
                              loc.WallDistMod)]
  /\ last' = [last EXCEPT !.outcome = IF last.capped THEN "capped" ELSE "converged"]
  /\ iVertex' = iVertex + 1
  /\ pc' = "vertex"
  /\ UNCHANGED <<config, Domain, Temperature, iMarker, loc,
                 notConvergedCounter, smallYPlusCounter, reported, nCalls>>

(* the reduction done whatever the communication level *)
AllreduceCalls_mut(Comm_Level) == <<"notConvergedCounter", "smallYPlusCounter">>

(* if (config->GetComm_Level() == COMM_FULL): one SU2_MPI::Allreduce for each
   of the two counters *)
AllreduceCalls(Comm_Level) ==
  IF Comm_Level = "COMM_FULL" THEN <<"notConvergedCounter", "smallYPlusCounter">> ELSE <<>>

(* the counter reduction after the marker loops *)
SetTau_Reduce ==
  /\ UNCHANGED <<bcVars, routine, kxVars, mon, sstVars, pureVars, parVars>>
  /\ pc = "reduce"
  /\ allreduced' = allreduced \o AllreduceCalls(config.Comm_Level)
  /\ reported' = IF config.Comm_Level = "COMM_FULL"
                   THEN [notConverged |-> notConvergedCounter,
                         smallYPlus |-> smallYPlusCounter]
                   ELSE reported
  /\ pc' = "idle"
  /\ nCalls' = nCalls + 1
  /\ loc' = LocNone
  /\ last' = [last EXCEPT !.outcome = "returned"]
  /\ UNCHANGED <<config, Domain, Temperature, Tau_Wall, YPlus, EddyViscWall, UTau,
                 iMarker, iVertex, notConvergedCounter, smallYPlusCounter>>

SetTau_Running == SetTau_Marker \/ SetTau_Vertex \/ SetTau_Newton \/ SetTau_Store \/ SetTau_Reduce

-----------------------------------------------------------------------------
(* Vectors and matrices of the wall boundary kernels, indexed from 0 as in
   the source.                                                             *)

Idx(n) == 0..(n - 1)
V(s) == [i \in Idx(Len(s)) |-> s[i + 1]]
ConstVec(n, x) == [i \in Idx(n) |-> x]
ZeroVec(n) == ConstVec(n, Zero)
ConstMat(n, x) == [i \in Idx(n) |-> ConstVec(n, x)]
ZeroMat(n) == ConstMat(n, Zero)
UnitRow(n, k) == [j \in Idx(n) |-> IF j = k THEN One ELSE Zero]

(* GeometryToolbox::DotProduct, SquaredNorm, Norm, Distance *)
RECURSIVE DotProduct(_, _, _)
DotProduct(n, a, b) ==
  IF n = 0 THEN Zero
  ELSE RAdd(DotProduct(n - 1, a, b), RMul(a[n - 1], b[n - 1]))
SquaredNorm(n, a) == DotProduct(n, a, a)
Norm(n, a) == RSqrt(SquaredNorm(n, a))
EdgeVector(n, a, b) == [i \in Idx(n) |-> RSub(a[i], b[i])]
Distance(n, a, b) == Norm(n, EdgeVector(n, a, b))

(* CSysMatrix: the rows of one point, as its diagonal block and one
   off-diagonal block, with the operations the running kernel step has
   applied to them *)
AddBlock2Diag(J, block) ==
  [J EXCEPT !.diag = [i \in DOMAIN @ |-> [j \in DOMAIN @[i] |-> RAdd(@[i][j], block[i][j])]],
            !.ops = Append(@, <<"AddBlock2Diag", -1>>)]

DeleteValsRowi(J, n, iVar) ==
  [J EXCEPT !.diag[iVar] = UnitRow(n, iVar),
            !.off[iVar] = ZeroVec(n),
            !.ops = Append(@, <<"DeleteValsRowi", iVar>>)]

AddVal2Diag(J, iVar, val) ==
  [J EXCEPT !.diag[iVar][iVar] = RAdd(@, val),
            !.ops = Append(@, <<"AddVal2Diag", iVar>>)]

(* for (iVar = first; iVar <= lastVar; iVar++) Jacobian.DeleteValsRowi(iPoint*nVar+iVar) *)
RECURSIVE DeleteRows(_, _, _, _)
DeleteRows(J, n, iVar, lastVar) ==
  IF iVar > lastVar THEN J
  ELSE DeleteRows(DeleteValsRowi(J, n, iVar), n, iVar + 1, lastVar)

-----------------------------------------------------------------------------
(* Configuration and flow state seen by the wall boundary kernels          *)

Gamma == R(3, 2)
Gamma_Minus_One == RSub(Gamma, One)
Prandtl_Lam == R(1, 2)
Prandtl_Turb == R(1, 3)
Temperature_Ref == I(2)
Heat_Flux_Ref == I(4)
Viscosity_Ref == I(3)

AveragedLaws == {"AVERAGED_TEMPERATURE_NEUMANN_HEATFLUX", "AVERAGED_TEMPERATURE_ROBIN_HEATFLUX"}
DirectLaws == {"DIRECT_TEMPERATURE_NEUMANN_HEATFLUX", "DIRECT_TEMPERATURE_ROBIN_HEATFLUX"}
CouplingValues ==
  {"AVERAGED_TEMPERATURE_NEUMANN_HEATFLUX", "DIRECT_TEMPERATURE_ROBIN_HEATFLUX", "OTHER_COUPLING"}

BCConfigDefault ==
  [solver |-> "CNS", nDim |-> 2, implicit |-> FALSE, dynamic_grid |-> FALSE,
   energy |-> TRUE, Kind_CHT_Coupling |-> "AVERAGED_TEMPERATURE_NEUMANN_HEATFLUX",
   streamwise_periodic |-> FALSE, streamwise_periodic_temperature |-> FALSE]

BCConfigs ==
  {[BCConfigDefault EXCEPT !.nDim = d, !.implicit = i, !.dynamic_grid = g,
                           !.Kind_CHT_Coupling = c]
     : d \in {2, 3}, i \in BOOLEAN, g \in BOOLEAN, c \in CouplingValues}
  \cup
  {[BCConfigDefault EXCEPT !.solver = "INC", !.nDim = d, !.implicit = i,
                           !.dynamic_grid = g, !.energy = e, !.Kind_CHT_Coupling = c]
     : d \in {2, 3}, i \in BOOLEAN, g \in BOOLEAN, e \in BOOLEAN, c \in CouplingValues}
  \cup
  {[BCConfigDefault EXCEPT !.solver = "INC", !.nDim = d, !.implicit = i,
                           !.dynamic_grid = g, !.streamwise_periodic = TRUE,
                           !.streamwise_periodic_temperature = t]
     : d \in {2, 3}, i \in BOOLEAN, g \in BOOLEAN, t \in BOOLEAN}

(* streamwise-periodic data of the incompressible solver *)
Streamwise_Periodic_IntegratedHeatFlow == I(6)
Streamwise_Periodic_MassFlow == I(3)
Periodic_Translation(nDim) ==
  IF nDim = 2 THEN V(<<I(1), I(0)>>) ELSE V(<<I(1), I(0), I(0)>>)

(* geometry and flow state of the two kinds of wall vertex of the mesh; tau
   is the stress tensor CNumerics::ComputeStressTensor returns there *)
VertexStates(nDim) ==
  << [Normal |-> IF nDim = 2 THEN V(<<I(3), I(4)>>) ELSE V(<<I(1), I(2), I(2)>>),
      GridVel |-> IF nDim = 2 THEN V(<<I(1), I(2)>>) ELSE V(<<I(1), I(2), I(2)>>),
      Velocity |-> IF nDim = 2 THEN V(<<I(1), I(1)>>) ELSE V(<<I(1), I(1), I(2)>>),
      Coord_i |-> ZeroVec(nDim),
      Coord_j |-> IF nDim = 2 THEN V(<<I(0), I(2)>>) ELSE V(<<I(0), I(0), I(2)>>),
      tau |-> IF nDim = 2 THEN V(<<V(<<I(1), I(2)>>), V(<<I(2), I(-1)>>)>>)
              ELSE V(<<V(<<I(1), I(2), I(0)>>), V(<<I(2), I(-1), I(1)>>),
                       V(<<I(0), I(1), I(0)>>)>>),
      Density |-> I(2), Pressure |-> I(3),
      laminar_viscosity |-> I(1), eddy_viscosity |-> I(1),
      ThermalConductivity |-> I(2), SpecificHeatCp |-> I(4),
      There |-> I(5), Tconjugate |-> I(8), HF_FactorConjugate |-> I(1),
      CustomBoundaryHeatFlux |-> I(6), CustomBoundaryTemperature |-> I(7)],
     [Normal |-> IF nDim = 2 THEN V(<<I(0), I(-2)>>) ELSE V(<<I(0), I(0), I(-3)>>),
      GridVel |-> ZeroVec(nDim),
      Velocity |-> ZeroVec(nDim),
      Coord_i |-> IF nDim = 2 THEN V(<<I(1), I(1)>>) ELSE V(<<I(1), I(1), I(1)>>),
      Coord_j |-> IF nDim = 2 THEN V(<<I(4), I(5)>>) ELSE V(<<I(2), I(3), I(3)>>),
      tau |-> ZeroMat(nDim),
      Density |-> I(1), Pressure |-> I(6),
      laminar_viscosity |-> I(2), eddy_viscosity |-> Zero,
      ThermalConductivity |-> I(3), SpecificHeatCp |-> I(2),
      There |-> I(1), Tconjugate |-> I(2), HF_FactorConjugate |-> I(3),
      CustomBoundaryHeatFlux |-> I(-1), CustomBoundaryTemperature |-> I(4)] >>

(* the marker settings a kernel call reads from the configuration *)
CallNone ==
  [kernel |-> "none", val_marker |-> 0, kind_boundary |-> "none", cht_mode |-> FALSE,
   PyCustom |-> FALSE, WallFunction |-> "NO_WALL_FUNCTION",
   Wall_HeatFlux |-> Zero, Isothermal_Temperature |-> Zero,
   HeatTransfer_Coefficient |-> Zero, HeatTransfer_Temperature |-> Zero]

CNSCalls ==
  { [CallNone EXCEPT !.kernel = "CNS_HeatFlux_Wall_Generic", !.kind_boundary = "HEAT_FLUX",
                     !.Wall_HeatFlux = I(8)],
    [CallNone EXCEPT !.kernel = "CNS_HeatFlux_Wall_Generic", !.kind_boundary = "HEAT_FLUX",
                     !.Wall_HeatFlux = I(8), !.PyCustom = TRUE],
    [CallNone EXCEPT !.kernel = "CNS_HeatFlux_Wall_Generic", !.kind_boundary = "HEAT_TRANSFER",
                     !.HeatTransfer_Coefficient = Zero, !.HeatTransfer_Temperature = I(10)],
    [CallNone EXCEPT !.kernel = "CNS_HeatFlux_Wall_Generic", !.kind_boundary = "HEAT_TRANSFER",
                     !.HeatTransfer_Coefficient = I(2), !.HeatTransfer_Temperature = I(10)],
    [CallNone EXCEPT !.kernel = "CNS_HeatFlux_Wall_Generic", !.kind_boundary = "HEAT_TRANSFER",
                     !.HeatTransfer_Coefficient = Zero, !.HeatTransfer_Temperature = I(10),
                     !.PyCustom = TRUE],
    [CallNone EXCEPT !.kernel = "CNS_Isothermal_Wall_Generic", !.kind_boundary = "ISOTHERMAL",
                     !.Isothermal_Temperature = I(6)],
    [CallNone EXCEPT !.kernel = "CNS_Isothermal_Wall_Generic", !.kind_boundary = "ISOTHERMAL",
                     !.Isothermal_Temperature = I(6), !.PyCustom = TRUE],
    [CallNone EXCEPT !.kernel = "CNS_Isothermal_Wall_Generic", !.kind_boundary = "CHT_WALL_INTERFACE",
                     !.cht_mode = TRUE] }

IncCalls ==
  { [CallNone EXCEPT !.kernel = "Inc_Wall_Generic", !.kind_boundary = "HEAT_FLUX",
                     !.Wall_HeatFlux = I(8)],
    [CallNone EXCEPT !.kernel = "Inc_Wall_Generic", !.kind_boundary = "ISOTHERMAL",
                     !.Isothermal_Temperature = I(6)],
    [CallNone EXCEPT !.kernel = "Inc_Wall_Generic", !.kind_boundary = "HEAT_TRANSFER"],
    [CallNone EXCEPT !.kernel = "Inc_Wall_Generic", !.kind_boundary = "HEAT_FLUX",
                     !.Wall_HeatFlux = I(8), !.WallFunction = "STANDARD_FUNCTION"],
    [CallNone EXCEPT !.kernel = "Inc_ConjugateHeat_Interface",
                     !.kind_boundary = "CHT_WALL_INTERFACE", !.cht_mode = TRUE],
    [CallNone EXCEPT !.kernel = "Inc_ConjugateHeat_Interface",
                     !.kind_boundary = "CHT_WALL_INTERFACE", !.cht_mode = TRUE,
                     !.WallFunction = "STANDARD_FUNCTION"] }

CallChoices(solver) == IF solver = "CNS" THEN CNSCalls ELSE IncCalls

BLocNone ==
  [Jacobian_i |-> "nullptr", Wall_HeatFlux |-> Zero, Tinfinity |-> Zero,
   Transfer_Coefficient |-> Zero, Twall |-> Zero]

BLastNone ==
  [outcome |-> "none", point |-> 0, Wall_HeatFlux |-> Zero, Twall |-> Zero,
   Res_Conv |-> Zero, Res_Visc |-> Zero, error |-> ""]

-----------------------------------------------------------------------------
(* Pieces shared by the wall boundary kernels                              *)

nVarOf(nDim) == nDim + 2

(* a value computed once and then used under a name, as a local of the code *)
Bind(e, F(_)) == CHOOSE r \in {F(x) : x \in {e}} : TRUE

Geo(iPoint) == VertexStates(bcfg.nDim)[(iPoint % 2) + 1]

NoJacobian_i == [alloc |-> FALSE, m |-> ZeroMat(0)]
NewJacobian_i(nVar) == [alloc |-> TRUE, m |-> ZeroMat(nVar)]

(* the row left as the previous vertex filled it *)
ZeroEnergyRow_mut(Ji, nDim) == Ji

(* for (iVar = 0; iVar < nVar; ++iVar) Jacobian_i[nDim + 1][iVar] = 0.0 *)
ZeroEnergyRow(Ji, nDim) == [Ji EXCEPT !.m[nDim + 1] = ZeroVec(nVarOf(nDim))]

(* the grid velocity ignored *)
WallVelocity_mut(dynamic_grid, GridVel, nDim) == ZeroVec(nDim)

(* the velocity handed to SetVelocity_Old: the grid velocity of the point on
   a dynamic grid, su2double zero[MAXNDIM] = {0.0} otherwise *)
WallVelocity(dynamic_grid, GridVel, nDim) ==
  IF dynamic_grid THEN GridVel ELSE ZeroVec(nDim)

(* the zeroing started at index 0 *)
ZeroMomentumResidual_mut(res, nDim) ==
  [i \in DOMAIN res |-> IF i \in 0..(nDim - 1) THEN Zero ELSE res[i]]

(* for (iDim = 0; iDim < nDim; iDim++) LinSysRes(iPoint, iDim + 1) = 0.0 *)
ZeroMomentumResidual(res, nDim) ==
  [i \in DOMAIN res |-> IF i \in 1..nDim THEN Zero ELSE res[i]]

(* UnitNormal[iDim] = -Normal[iDim] / Area *)
UnitNormalOf(Normal, Area, nDim) == [i \in Idx(nDim) |-> RNeg(RDiv(Normal[i], Area))]

(* Transfer_Coefficient * Tinfinity - Twall *)
HeatTransferFlux_mut(Transfer_Coefficient, Tinfinity, Twall) ==
  RSub(RMul(Transfer_Coefficient, Tinfinity), Twall)

(* Wall_HeatFlux = Transfer_Coefficient * (Tinfinity - Twall) *)
HeatTransferFlux(Transfer_Coefficient, Tinfinity, Twall) ==
  RMul(Transfer_Coefficient, RSub(Tinfinity, Twall))

(* the area left out *)
HeatFluxResVisc_mut(Wall_HeatFlux, Area) == Wall_HeatFlux

(* Res_Visc = Wall_HeatFlux * Area *)
HeatFluxResVisc(Wall_HeatFlux, Area) == RMul(Wall_HeatFlux, Area)

(* the sign of the difference lost *)
WallNormalGradient_mut(There, Twall, dist_ij) == RDiv(RSub(There, Twall), dist_ij)

(* dTdn = -(There - Twall) / dist_ij *)
WallNormalGradient(There, Twall, dist_ij) == RNeg(RDiv(RSub(There, Twall), dist_ij))

(* the projected grid velocity, the shear-stress work and the factor of the
   shear-stress Jacobian terms *)
DynamicGridTerms(g, nDim, UnitNormal, Area, GridVel) ==
  [ProjGridVel |-> RMul(Area, DotProduct(nDim, GridVel, UnitNormal)),
   GridVel2 |-> SquaredNorm(nDim, GridVel),
   tauWork |-> RMul(DotProduct(nDim, [i \in Idx(nDim) |-> DotProduct(nDim, g.tau[i], GridVel)],
                               UnitNormal), Area),
   factor |-> RDiv(RMul(RAdd(g.laminar_viscosity, g.eddy_viscosity), Area),
                   RMul(g.Density, Distance(nDim, g.Coord_i, g.Coord_j)))]

(* the cross terms etaz left out of the 2D branch *)
DynamicGridPi_mut(nDim, UnitNormal, GridVel) ==
  LET theta(k) == RAdd(One, RDiv(RMul(UnitNormal[k], UnitNormal[k]), I(3)))
      eta(a, b) == RDiv(RMul(UnitNormal[a], UnitNormal[b]), I(3))
  IN IF nDim = 2
       THEN [pix |-> RMul(GridVel[0], theta(0)),
             piy |-> RMul(GridVel[1], theta(1)),
             piz |-> Zero]
       ELSE [pix |-> RAdd(RAdd(RMul(GridVel[0], theta(0)), RMul(GridVel[1], eta(0, 1))),
                          RMul(GridVel[2], eta(0, 2))),
             piy |-> RAdd(RAdd(RMul(GridVel[0], eta(0, 1)), RMul(GridVel[1], theta(1))),
                          RMul(GridVel[2], eta(1, 2))),
             piz |-> RAdd(RAdd(RMul(GridVel[0], eta(0, 2)), RMul(GridVel[1], eta(1, 2))),
                          RMul(GridVel[2], theta(2)))]

(* pix, piy, piz of the 2D and of the 3D branch *)
DynamicGridPi(nDim, UnitNormal, GridVel) ==
  LET theta(k) == RAdd(One, RDiv(RMul(UnitNormal[k], UnitNormal[k]), I(3)))
      eta(a, b) == RDiv(RMul(UnitNormal[a], UnitNormal[b]), I(3))
  IN IF nDim = 2
       THEN [pix |-> RAdd(RMul(GridVel[0], theta(0)), RMul(GridVel[1], eta(0, 1))),
             piy |-> RAdd(RMul(GridVel[0], eta(0, 1)), RMul(GridVel[1], theta(1))),
             piz |-> Zero]
       ELSE [pix |-> RAdd(RAdd(RMul(GridVel[0], theta(0)), RMul(GridVel[1], eta(0, 1))),
                          RMul(GridVel[2], eta(0, 2))),
             piy |-> RAdd(RAdd(RMul(GridVel[0], eta(0, 1)), RMul(GridVel[1], theta(1))),
                          RMul(GridVel[2], eta(1, 2))),
             piz |-> RAdd(RAdd(RMul(GridVel[0], eta(0, 2)), RMul(GridVel[1], eta(1, 2))),
                          RMul(GridVel[2], theta(2)))]

(* what the pressure term and the shear stress add to Jacobian_i[nDim + 1][j] *)
DynamicGridJacobianTerm(j, nDim, d, pi, GridVel) ==
  LET GM1 == Gamma_Minus_One
      pressure == IF j = 0 THEN RMul(RMul(RMul(R(1, 2), GM1), d.GridVel2), d.ProjGridVel)
                  ELSE IF j = nDim + 1 THEN RMul(GM1, d.ProjGridVel)
                  ELSE RNeg(RMul(RMul(GM1, GridVel[j - 1]), d.ProjGridVel))
      shear0 == IF nDim = 2
                  THEN RAdd(RNeg(RMul(pi.pix, GridVel[0])), RMul(pi.piy, GridVel[1]))
                  ELSE RAdd(RAdd(RNeg(RMul(pi.pix, GridVel[0])), RMul(pi.piy, GridVel[1])),
                            RMul(pi.piz, GridVel[2]))
      shear == IF j = 0 THEN RMul(d.factor, shear0)
               ELSE IF j = 1 THEN RMul(d.factor, pi.pix)
               ELSE IF j = 2 THEN RMul(d.factor, pi.piy)
               ELSE IF j = 3 /\ nDim = 3 THEN RMul(d.factor, pi.piz)
               ELSE Zero
  IN RAdd(pressure, shear)

(* CNSSolver::AddDynamicGridResidualContribution *)
AddDynamicGridResidualContribution(g, nDim, UnitNormal, Area, GridVel, Jacobian_i, Res_Conv, Res_Visc) ==
  Bind(DynamicGridTerms(g, nDim, UnitNormal, Area, GridVel), LAMBDA d :
  Bind(DynamicGridPi(nDim, UnitNormal, GridVel), LAMBDA pi :
    [Res_Conv |-> RAdd(Res_Conv, RMul(g.Pressure, d.ProjGridVel)),
     Res_Visc |-> RAdd(Res_Visc, d.tauWork),
     Jacobian_i |->
       IF Jacobian_i.alloc
         THEN [Jacobian_i EXCEPT !.m[nDim + 1] =
                 [j \in Idx(nVarOf(nDim)) |->
                    RAdd(@[j], DynamicGridJacobianTerm(j, nDim, d, pi, GridVel))]]
         ELSE Jacobian_i]))

(* CNSSolver::GetCHTWallTemperature; error is the message of SU2_MPI::Error *)
GetCHTWallTemperature(coupling, ConjugateVar0, ConjugateVar2, thermal_conductivity, dist_ij, There, Temperature_RefArg) ==
  LET Tconjugate == RDiv(ConjugateVar0, Temperature_RefArg)
      HF_FactorHere == RDiv(RMul(thermal_conductivity, Viscosity_Ref), dist_ij)
      HF_FactorConjugate == ConjugateVar2
  IN IF coupling \in AveragedLaws
       THEN [Twall |-> RDiv(RAdd(RMul(There, HF_FactorHere),
                                 RMul(Tconjugate, HF_FactorConjugate)),
                            RAdd(HF_FactorHere, HF_FactorConjugate)),
             error |-> ""]
     ELSE IF coupling \in DirectLaws
       THEN [Twall |-> Tconjugate, error |-> ""]
     ELSE [Twall |-> Zero, error |-> "Unknown CHT coupling method."]

-----------------------------------------------------------------------------
(* CNSSolver::BC_HeatFlux_Wall_Generic                                     *)

(* the part before the vertex loop *)
HeatFluxWallLocals(c) ==
  [Wall_HeatFlux |-> IF c.kind_boundary = "HEAT_FLUX"
                       THEN RDiv(c.Wall_HeatFlux, Heat_Flux_Ref) ELSE Zero,
   Transfer_Coefficient |->
     IF c.kind_boundary = "HEAT_TRANSFER"
       THEN RDiv(RMul(c.HeatTransfer_Coefficient, Temperature_Ref), Heat_Flux_Ref)
       ELSE Zero,
   Tinfinity |-> IF c.kind_boundary = "HEAT_TRANSFER"
                   THEN RDiv(c.HeatTransfer_Temperature, Temperature_Ref) ELSE Zero,
   Twall |-> Zero,
   Jacobian_i |-> IF (bcfg.dynamic_grid \/ c.kind_boundary = "HEAT_TRANSFER") /\ bcfg.implicit
                    THEN NewJacobian_i(nVarOf(bcfg.nDim)) ELSE NoJacobian_i]

(* dTdrho and dTdrhoe of the heat-transfer wall *)
HeatTransferDerivatives(g, nDim, Tinfinity) ==
  LET oneOnRho == RDiv(One, g.Density)
      oneOnCv == RDiv(Gamma_Minus_One, Gas_Constant)
      Vel2 == SquaredNorm(nDim, g.Velocity)
  IN [dTdrho |-> RMul(oneOnRho, RAdd(RNeg(Tinfinity), RMul(RMul(oneOnCv, R(1, 2)), Vel2))),
      dTdrhoe |-> RMul(oneOnCv, oneOnRho)]

(* the Jacobian terms of the heat-transfer wall, added to the energy row *)
HeatTransferJacobian(Ji, g, nDim, dynamic_grid, Transfer_Coefficient, Tinfinity, Area) ==
  Bind(HeatTransferDerivatives(g, nDim, Tinfinity), LAMBDA dT :
    LET Ji0 == IF ~dynamic_grid THEN ZeroEnergyRow(Ji, nDim) ELSE Ji
        term(j) ==
          IF j = 0 THEN RMul(RMul(Transfer_Coefficient, dT.dTdrho), Area)
          ELSE IF j = nDim + 1 THEN RMul(RMul(Transfer_Coefficient, dT.dTdrhoe), Area)
          ELSE RNeg(RMul(RMul(RMul(Transfer_Coefficient, dT.dTdrhoe), g.Velocity[j - 1]), Area))
    IN [Ji0 EXCEPT !.m[nDim + 1] = [j \in Idx(nVarOf(nDim)) |-> RAdd(@[j], term(j))]])

(* Wall_HeatFlux of the vertex *)
VertexHeatFlux(kind_boundary, PyCustom, lc, g, Twall_node) ==
  IF PyCustom THEN g.CustomBoundaryHeatFlux
  ELSE IF kind_boundary = "HEAT_TRANSFER"
    THEN HeatTransferFlux(lc.Transfer_Coefficient, lc.Tinfinity, Twall_node)
    ELSE lc.Wall_HeatFlux

(* Res_Conv, Res_Visc and Jacobian_i before the residual is updated *)
HeatFluxWallResiduals(g, nDim, implicit, dynamic_grid, Jacobian_i, Wall_HeatFlux, Area) ==
  IF dynamic_grid
    THEN AddDynamicGridResidualContribution(
           g, nDim, UnitNormalOf(g.Normal, Area, nDim), Area, g.GridVel,
           IF implicit THEN ZeroEnergyRow(Jacobian_i, nDim) ELSE Jacobian_i,
           Zero, HeatFluxResVisc(Wall_HeatFlux, Area))
    ELSE [Res_Conv |-> Zero, Res_Visc |-> HeatFluxResVisc(Wall_HeatFlux, Area),
          Jacobian_i |-> Jacobian_i]

(* the energy residual assigned instead of updated *)
AddEnergyResidual_mut(res, nDim, Res_Conv, Res_Visc) ==
  [res EXCEPT ![nDim + 1] = RSub(Res_Conv, Res_Visc)]

(* LinSysRes(iPoint, nDim + 1) += Res_Conv - Res_Visc *)
AddEnergyResidual(res, nDim, Res_Conv, Res_Visc) ==
  [res EXCEPT ![nDim + 1] = RAdd(@, RSub(Res_Conv, Res_Visc))]

(* the implicit part: the block is added, then the momentum rows are reset *)
HeatFluxWallJacobian(jac, nDim, implicit, addBlock, Ji) ==
  LET jac0 == [jac EXCEPT !.ops = <<>>]
  IN IF ~implicit THEN jac0
     ELSE IF addBlock THEN DeleteRows(AddBlock2Diag(jac0, Ji.m), nVarOf(nDim), 1, nDim)
     ELSE DeleteRows(jac0, nVarOf(nDim), 1, nDim)

(* the loop body for an owned vertex *)
HeatFluxWallVertex(kind_boundary, PyCustom, lc, iPoint, res, jac, Twall_node) ==
  Bind(bcfg, LAMBDA cfg :
  Bind(Geo(iPoint), LAMBDA g :
  Bind(Norm(cfg.nDim, g.Normal), LAMBDA Area :
  Bind(VertexHeatFlux(kind_boundary, PyCustom, lc, g, Twall_node), LAMBDA Wall_HeatFlux :
  Bind(HeatFluxWallResiduals(g, cfg.nDim, cfg.implicit, cfg.dynamic_grid, lc.Jacobian_i,
                             Wall_HeatFlux, Area), LAMBDA r :
  Bind(IF cfg.implicit /\ kind_boundary = "HEAT_TRANSFER"
         THEN HeatTransferJacobian(r.Jacobian_i, g, cfg.nDim, cfg.dynamic_grid,
                                   lc.Transfer_Coefficient, lc.Tinfinity, Area)
         ELSE r.Jacobian_i, LAMBDA Ji :
    [res |-> AddEnergyResidual(ZeroMomentumResidual(res, cfg.nDim), cfg.nDim,
                               r.Res_Conv, r.Res_Visc),
     jac |-> HeatFluxWallJacobian(jac, cfg.nDim, cfg.implicit,
                                  cfg.dynamic_grid \/ kind_boundary = "HEAT_TRANSFER", Ji),
     vold |-> WallVelocity(cfg.dynamic_grid, g.GridVel, cfg.nDim),
     Jacobian_i |-> Ji, Wall_HeatFlux |-> Wall_HeatFlux, Twall |-> lc.Twall,
     Res_Conv |-> r.Res_Conv, Res_Visc |-> r.Res_Visc,
     outcome |-> "done", error |-> ""]))))))

-----------------------------------------------------------------------------
(* CNSSolver::BC_Isothermal_Wall_Generic                                   *)

(* the part before the vertex loop *)
IsothermalWallLocals(c) ==
  [Wall_HeatFlux |-> Zero, Transfer_Coefficient |-> Zero, Tinfinity |-> Zero,
   Twall |-> IF ~c.cht_mode THEN RDiv(c.Isothermal_Temperature, Temperature_Ref) ELSE Zero,
   Jacobian_i |-> IF bcfg.implicit THEN NewJacobian_i(nVarOf(bcfg.nDim)) ELSE NoJacobian_i]

(* thermal_conductivity = Cp * (laminar_viscosity / Prandtl_Lam + eddy_viscosity / Prandtl_Turb) *)
ThermalConductivityOf(laminar_viscosity, eddy_viscosity) ==
  RMul(RMul(RDiv(Gamma, Gamma_Minus_One), Gas_Constant),
       RAdd(RDiv(laminar_viscosity, Prandtl_Lam), RDiv(eddy_viscosity, Prandtl_Turb)))

(* the energy row written for implicit time stepping *)
IsothermalJacobianRow(Ji, g, nDim, thermal_conductivity, dist_ij, Twall, Area) ==
  Bind(RDiv(thermal_conductivity, dist_ij), LAMBDA kd :
    LET Vel2 == SquaredNorm(nDim, g.Velocity)
        dTdrho == RMul(RDiv(One, g.Density),
                       RAdd(RNeg(Twall),
                            RMul(RDiv(Gamma_Minus_One, Gas_Constant), RDiv(Vel2, I(2)))))
        row(j) == IF j = 0 THEN RMul(RMul(kd, dTdrho), Area)
                  ELSE IF j = nDim + 1
                    THEN RMul(RDiv(RMul(kd, Gamma_Minus_One), RMul(Gas_Constant, g.Density)),
                              Area)
                  ELSE Zero
    IN [Ji EXCEPT !.m[nDim + 1] = [j \in Idx(nVarOf(nDim)) |-> row(j)]])

(* the geometry and the transport coefficient of the vertex *)
IsothermalWallGeometry(g, nDim) ==
  [Area |-> Norm(nDim, g.Normal),
   dist_ij |-> Distance(nDim, g.Coord_i, g.Coord_j),
   thermal_conductivity |-> ThermalConductivityOf(g.laminar_viscosity, g.eddy_viscosity),
   There |-> g.There]

(* Twall of the vertex: the coupling law, the custom patch or the marker's
   value; the call hands dist_ij over before thermal_conductivity *)
IsothermalWallTemperature(c, lc, g, q, coupling) ==
  IF c.cht_mode
    THEN GetCHTWallTemperature(coupling, g.Tconjugate, g.HF_FactorConjugate,
                               q.dist_ij, q.thermal_conductivity, q.There, Temperature_Ref)
  ELSE IF c.PyCustom THEN [Twall |-> g.CustomBoundaryTemperature, error |-> ""]
  ELSE [Twall |-> lc.Twall, error |-> ""]

(* Res_Conv, Res_Visc and Jacobian_i before the residual is updated *)
IsothermalWallResiduals(g, nDim, implicit, dynamic_grid, Jacobian_i, q, Twall) ==
  Bind(IF implicit
         THEN IsothermalJacobianRow(Jacobian_i, g, nDim, q.thermal_conductivity, q.dist_ij,
                                    Twall, q.Area)
         ELSE Jacobian_i, LAMBDA Ji :
  Bind(RMul(RMul(q.thermal_conductivity, WallNormalGradient(q.There, Twall, q.dist_ij)),
            q.Area), LAMBDA Res_Visc :
    IF dynamic_grid
      THEN AddDynamicGridResidualContribution(
             g, nDim, UnitNormalOf(g.Normal, q.Area, nDim), q.Area, g.GridVel, Ji,
             Zero, Res_Visc)
      ELSE [Res_Conv |-> Zero, Res_Visc |-> Res_Visc, Jacobian_i |-> Ji]))

(* the implicit part: the block is added, then the momentum rows are reset *)
IsothermalWallJacobian(jac, nDim, implicit, Ji) ==
  LET jac0 == [jac EXCEPT !.ops = <<>>]
  IN IF implicit THEN DeleteRows(AddBlock2Diag(jac0, Ji.m), nVarOf(nDim), 1, nDim)
     ELSE jac0

(* the loop body for an owned vertex *)
IsothermalWallVertex(c, lc, iPoint, res, jac) ==
  Bind(bcfg, LAMBDA cfg :
  Bind(Geo(iPoint), LAMBDA g :
  Bind(IsothermalWallGeometry(g, cfg.nDim), LAMBDA q :
  Bind(IsothermalWallTemperature(c, lc, g, q, cfg.Kind_CHT_Coupling), LAMBDA tw :
    IF tw.error # ""
      THEN [res |-> ZeroMomentumResidual(res, cfg.nDim),
            jac |-> [jac EXCEPT !.ops = <<>>],
            vold |-> WallVelocity(cfg.dynamic_grid, g.GridVel, cfg.nDim),
            Jacobian_i |-> lc.Jacobian_i, Wall_HeatFlux |-> Zero, Twall |-> lc.Twall,
            Res_Conv |-> Zero, Res_Visc |-> Zero,
            outcome |-> "error", error |-> tw.error]
      ELSE
        Bind(IsothermalWallResiduals(g, cfg.nDim, cfg.implicit, cfg.dynamic_grid,
                                     lc.Jacobian_i, q, tw.Twall), LAMBDA r :
          [res |-> AddEnergyResidual(ZeroMomentumResidual(res, cfg.nDim), cfg.nDim,
                                     r.Res_Conv, r.Res_Visc),
           jac |-> IsothermalWallJacobian(jac, cfg.nDim, cfg.implicit, r.Jacobian_i),
           vold |-> WallVelocity(cfg.dynamic_grid, g.GridVel, cfg.nDim),
           Jacobian_i |-> r.Jacobian_i, Wall_HeatFlux |-> Zero, Twall |-> tw.Twall,
           Res_Conv |-> r.Res_Conv, Res_Visc |-> r.Res_Visc,
           outcome |-> "done", error |-> ""])))))

-----------------------------------------------------------------------------
(* CIncNSSolver::BC_Wall_Generic                                           *)

(* the part before the vertex loop; error is the message of SU2_MPI::Error *)
IncWallLocals(c) ==
  [Wall_HeatFlux |-> IF c.kind_boundary = "HEAT_FLUX"
                       THEN RDiv(c.Wall_HeatFlux, Heat_Flux_Ref) ELSE Zero,
   Transfer_Coefficient |-> Zero, Tinfinity |-> Zero,
   Twall |-> IF c.kind_boundary = "ISOTHERMAL"
               THEN RDiv(c.Isothermal_Temperature, Temperature_Ref) ELSE Zero,
   Jacobian_i |-> NoJacobian_i]

IncWallEntryError(c) ==
  IF c.kind_boundary \notin {"HEAT_FLUX", "ISOTHERMAL"}
    THEN "Unknown type of boundary condition"
  ELSE IF c.WallFunction # "NO_WALL_FUNCTION"
    THEN "Wall function treament not implemented yet"
  ELSE ""

(* the extra term of heat-flux walls in streamwise-periodic flow *)
StreamwisePeriodicTerm(iPoint) ==
  LET nDim == bcfg.nDim
      g == Geo(iPoint)
      norm2_translation == SquaredNorm(nDim, Periodic_Translation(nDim))
      scalar_factor == RDiv(RMul(Streamwise_Periodic_IntegratedHeatFlow, g.ThermalConductivity),
                            RMul(RMul(Streamwise_Periodic_MassFlow, g.SpecificHeatCp),
                                 norm2_translation))
      dot_product == DotProduct(nDim, Periodic_Translation(nDim), g.Normal)
  IN RMul(scalar_factor, dot_product)

(* the loop body for an owned vertex *)
IncWallVertex(c, lc, iPoint, res, jac) ==
  LET nDim == bcfg.nDim
      nVar == nVarOf(nDim)
      implicit == bcfg.implicit
      g == Geo(iPoint)
      Area == Norm(nDim, g.Normal)
      vold == WallVelocity(bcfg.dynamic_grid, g.GridVel, nDim)
      res1 == ZeroMomentumResidual(res, nDim)
      jac0 == [jac EXCEPT !.ops = <<>>]
      jac1 == IF implicit THEN DeleteRows(jac0, nVar, 1, nDim) ELSE jac0
      (* HEAT_FLUX *)
      hfVisc == HeatFluxResVisc(lc.Wall_HeatFlux, Area)
      resHF0 == [res1 EXCEPT ![nDim + 1] = RSub(@, hfVisc)]
      resHF == IF bcfg.streamwise_periodic /\ bcfg.streamwise_periodic_temperature
                 THEN [resHF0 EXCEPT ![nDim + 1] = RAdd(@, StreamwisePeriodicTerm(iPoint))]
                 ELSE resHF0
      (* ISOTHERMAL *)
      Edge_Vector == EdgeVector(nDim, g.Coord_j, g.Coord_i)
      dist_ij_2 == SquaredNorm(nDim, Edge_Vector)
      dist_ij == RSqrt(dist_ij_2)
      dTdn == WallNormalGradient(g.There, lc.Twall, dist_ij)
      thermal_conductivity == g.ThermalConductivity
      isoVisc == RMul(RMul(thermal_conductivity, dTdn), Area)
      resISO == [res1 EXCEPT ![nDim + 1] = RSub(@, isoVisc)]
      proj_vector_ij == IF RLt(Zero, dist_ij_2)
                          THEN RDiv(DotProduct(nDim, Edge_Vector, g.Normal), dist_ij_2)
                          ELSE Zero
      jacISO == IF implicit
                  THEN AddVal2Diag(jac1, nDim + 1, RMul(thermal_conductivity, proj_vector_ij))
                  ELSE jac1
      base == [res |-> res1, jac |-> jac1, vold |-> vold, Jacobian_i |-> lc.Jacobian_i,
               Wall_HeatFlux |-> lc.Wall_HeatFlux, Twall |-> lc.Twall,
               Res_Conv |-> Zero, Res_Visc |-> Zero, outcome |-> "noenergy", error |-> ""]
  IN IF ~bcfg.energy THEN base
     ELSE IF c.kind_boundary = "HEAT_FLUX"
       THEN [base EXCEPT !.res = resHF, !.Res_Visc = hfVisc, !.outcome = "done"]
       ELSE [base EXCEPT !.res = resISO, !.jac = jacISO, !.Res_Visc = isoVisc,
                         !.outcome = "done"]

-----------------------------------------------------------------------------
(* CIncNSSolver::BC_ConjugateHeat_Interface                                *)

IncCHTEntryError(c) ==
  IF c.WallFunction # "NO_WALL_FUNCTION"
    THEN "Wall function treament not implemented yet"
    ELSE ""

(* the wall temperature of the coupling law in use *)
IncCHTWallTemperature(coupling, iPoint) ==
  LET nDim == bcfg.nDim
      g == Geo(iPoint)
      Tconjugate == RDiv(g.Tconjugate, Temperature_Ref)
      dist_ij == Distance(nDim, g.Coord_j, g.Coord_i)
      HF_FactorHere == RDiv(RMul(g.ThermalConductivity, Viscosity_Ref), dist_ij)
      HF_FactorConjugate == g.HF_FactorConjugate
  IN IF coupling \in AveragedLaws
       THEN [Twall |-> RDiv(RAdd(RMul(g.There, HF_FactorHere),
                                 RMul(Tconjugate, HF_FactorConjugate)),
                            RAdd(HF_FactorHere, HF_FactorConjugate)),
             error |-> ""]
     ELSE IF coupling \in DirectLaws
       THEN [Twall |-> Tconjugate, error |-> ""]
     ELSE [Twall |-> Zero, error |-> "Unknown CHT coupling method."]

(* the energy row deleted whether or not the energy equation is solved *)
IncCHTLastRow_mut(energy, nDim) == nDim + 1

(* the last row deleted: the velocity rows 1..nDim, and
   if (energy) Jacobian.DeleteValsRowi(iPoint*nVar+nDim+1) *)
IncCHTLastRow(energy, nDim) == IF energy THEN nDim + 1 ELSE nDim

(* the loop body for an owned vertex; sold is the old solution of the point *)
IncCHTVertex(c, lc, iPoint, res, jac, sold) ==
  LET nDim == bcfg.nDim
      nVar == nVarOf(nDim)
      g == Geo(iPoint)
      vold == WallVelocity(bcfg.dynamic_grid, g.GridVel, nDim)
      res1 == ZeroMomentumResidual(res, nDim)
      jac0 == [jac EXCEPT !.ops = <<>>]
      jac1 == IF bcfg.implicit
                THEN DeleteRows(jac0, nVar, 1, IncCHTLastRow(bcfg.energy, nDim))
                ELSE jac0
      law == IncCHTWallTemperature(bcfg.Kind_CHT_Coupling, iPoint)
      base == [res |-> res1, jac |-> jac1, vold |-> vold, sold |-> sold,
               Jacobian_i |-> lc.Jacobian_i, Wall_HeatFlux |-> Zero, Twall |-> Zero,
               Res_Conv |-> Zero, Res_Visc |-> Zero, outcome |-> "noenergy", error |-> ""]
  IN IF ~bcfg.energy THEN base
     ELSE IF law.error # "" THEN [base EXCEPT !.outcome = "error", !.error = law.error]
     ELSE [base EXCEPT !.res = [res1 EXCEPT ![nDim + 1] = Zero],
                       !.sold = [sold EXCEPT ![nDim + 1] = law.Twall],
                       !.Twall = law.Twall, !.outcome = "done"]

-----------------------------------------------------------------------------
(* The contribution of an interior edge to one of its points               *)

(* the flux of an edge and its Jacobian blocks, as the numerics return them *)
EdgeFlux(nDim) ==
  [residual |-> [i \in Idx(nVarOf(nDim)) |-> I(i + 1)],
   jacobian_i |-> ConstMat(nVarOf(nDim), I(1)),
   jacobian_j |-> ConstMat(nVarOf(nDim), I(-1))]

(* LinSysRes.AddBlock(iPoint, residual) and, for an implicit scheme,
   Jacobian.UpdateBlocks(iEdge, iPoint, jPoint, jacobian_i, jacobian_j) *)
AddEdgeFlux(res, jac, e, implicit) ==
  [res |-> [i \in DOMAIN res |-> RAdd(res[i], e.residual[i])],
   jac |-> IF implicit
             THEN [jac EXCEPT
                     !.diag = [i \in DOMAIN @ |->
                                 [j \in DOMAIN @[i] |-> RAdd(@[i][j], e.jacobian_i[i][j])]],
                     !.off = [i \in DOMAIN @ |->
                                [j \in DOMAIN @[i] |-> RAdd(@[i][j], e.jacobian_j[i][j])]]]
             ELSE jac]

-----------------------------------------------------------------------------
(* The kernels as steps: the call, one step per vertex, the return         *)

KernelLocals(c) ==
  IF c.kernel = "CNS_HeatFlux_Wall_Generic" THEN HeatFluxWallLocals(c)
  ELSE IF c.kernel = "CNS_Isothermal_Wall_Generic" THEN IsothermalWallLocals(c)
  ELSE IF c.kernel = "Inc_Wall_Generic" THEN IncWallLocals(c)
  ELSE BLocNone

KernelEntryError(c) ==
  IF c.kernel = "Inc_Wall_Generic" THEN IncWallEntryError(c)
  ELSE IF c.kernel = "Inc_ConjugateHeat_Interface" THEN IncCHTEntryError(c)
  ELSE ""

InitBCState(configs) ==
  /\ bcfg \in configs
  /\ LinSysRes = [p \in Points |-> ConstVec(nVarOf(bcfg.nDim), I(7))]
  /\ Jacobian = [p \in Points |-> [diag |-> ConstMat(nVarOf(bcfg.nDim), I(2)),
                                   off |-> ConstMat(nVarOf(bcfg.nDim), I(3)),
                                   ops |-> <<>>]]
  /\ Velocity_Old = [p \in Points |-> ConstVec(bcfg.nDim, I(9))]
  /\ Solution_Old = [p \in Points |-> ConstVec(nVarOf(bcfg.nDim), I(9))]
  /\ bpc = "idle"
  /\ call = CallNone
  /\ bloc = BLocNone
  /\ iVertexBC = 0
  /\ nBCCalls = 0
  /\ blast = BLastNone

(* a boundary kernel is called for one marker *)
BC_Call ==
  /\ bpc = "idle"
  /\ nBCCalls < MaxBCCalls
  /\ \E m \in Markers, c \in CallChoices(bcfg.solver) :
       /\ call' = [c EXCEPT !.val_marker = m]
       /\ IF KernelEntryError(c) # ""
            THEN /\ bpc' = "aborted"
                 /\ blast' = [BLastNone EXCEPT !.outcome = "error",
                                               !.error = KernelEntryError(c)]
                 /\ UNCHANGED <<bloc, iVertexBC>>
            ELSE /\ bpc' = "loop"
                 /\ bloc' = KernelLocals(c)
                 /\ iVertexBC' = 1
                 /\ blast' = BLastNone
  /\ UNCHANGED <<bcfg, LinSysRes, Jacobian, Velocity_Old, Solution_Old, nBCCalls>>
  /\ UNCHANGED <<wfVars, xVars>>

BC_SkipHalo_mut(iPoint) ==
  /\ blast' = [BLastNone EXCEPT !.outcome = "halo", !.point = iPoint]
  /\ iVertexBC' = iVertexBC + 1
  /\ LinSysRes' = [LinSysRes EXCEPT ![iPoint] = [i \in DOMAIN @ |-> Zero]]
  /\ UNCHANGED <<Jacobian, Velocity_Old, Solution_Old, bpc, bloc>>

(* if (!geometry->nodes->GetDomain(iPoint)) continue; *)
BC_SkipHalo(iPoint) ==
  /\ blast' = [BLastNone EXCEPT !.outcome = "halo", !.point = iPoint]
  /\ iVertexBC' = iVertexBC + 1
  /\ UNCHANGED <<LinSysRes, Jacobian, Velocity_Old, Solution_Old, bpc, bloc>>

(* the writes of one loop body; SU2_MPI::Error ends the run *)
BC_Apply(iPoint, r, sold) ==
  /\ LinSysRes' = [LinSysRes EXCEPT ![iPoint] = r.res]
  /\ Jacobian' = [Jacobian EXCEPT ![iPoint] = r.jac]
  /\ Velocity_Old' = [Velocity_Old EXCEPT ![iPoint] = r.vold]
  /\ Solution_Old' = [Solution_Old EXCEPT ![iPoint] = sold]
  /\ bloc' = [bloc EXCEPT !.Jacobian_i = r.Jacobian_i, !.Wall_HeatFlux = r.Wall_HeatFlux,
                          !.Twall = r.Twall]
  /\ blast' = [outcome |-> r.outcome, point |-> iPoint, Wall_HeatFlux |-> r.Wall_HeatFlux,
               Twall |-> r.Twall, Res_Conv |-> r.Res_Conv, Res_Visc |-> r.Res_Visc,
               error |-> r.error]
  /\ IF r.error # ""
       THEN bpc' = "aborted" /\ UNCHANGED iVertexBC
       ELSE bpc' = "loop" /\ iVertexBC' = iVertexBC + 1

HeatFluxWall_Vertex ==
  /\ bpc = "loop"
  /\ call.kernel = "CNS_HeatFlux_Wall_Generic"
  /\ iVertexBC <= NumVertex
  /\ LET iPoint == NodeOf(call.val_marker, iVertexBC)
     IN IF ~Domain[iPoint] THEN BC_SkipHalo(iPoint)
        ELSE BC_Apply(iPoint,
                      HeatFluxWallVertex(call.kind_boundary, call.PyCustom, bloc, iPoint,
                                         LinSysRes[iPoint], Jacobian[iPoint],
                                         Temperature[iPoint]),
                      Solution_Old[iPoint])
  /\ UNCHANGED <<bcfg, call, nBCCalls>>
  /\ UNCHANGED <<wfVars, xVars>>

IsothermalWall_Vertex ==
  /\ bpc = "loop"
  /\ call.kernel = "CNS_Isothermal_Wall_Generic"
  /\ iVertexBC <= NumVertex
  /\ LET iPoint == NodeOf(call.val_marker, iVertexBC)
     IN IF ~Domain[iPoint] THEN BC_SkipHalo(iPoint)
        ELSE BC_Apply(iPoint,
                      IsothermalWallVertex(call, bloc, iPoint, LinSysRes[iPoint],
                                           Jacobian[iPoint]),
                      Solution_Old[iPoint])
  /\ UNCHANGED <<bcfg, call, nBCCalls>>
  /\ UNCHANGED <<wfVars, xVars>>

IncWall_Vertex ==
  /\ bpc = "loop"
  /\ call.kernel = "Inc_Wall_Generic"
  /\ iVertexBC <= NumVertex
  /\ LET iPoint == NodeOf(call.val_marker, iVertexBC)
     IN IF ~Domain[iPoint] THEN BC_SkipHalo(iPoint)
        ELSE BC_Apply(iPoint,
                      IncWallVertex(call, bloc, iPoint, LinSysRes[iPoint], Jacobian[iPoint]),
                      Solution_Old[iPoint])
  /\ UNCHANGED <<bcfg, call, nBCCalls>>
  /\ UNCHANGED <<wfVars, xVars>>

IncCHT_Vertex ==
  /\ bpc = "loop"
  /\ call.kernel = "Inc_ConjugateHeat_Interface"
  /\ iVertexBC <= NumVertex
  /\ LET iPoint == NodeOf(call.val_marker, iVertexBC)
         r == IncCHTVertex(call, bloc, iPoint, LinSysRes[iPoint], Jacobian[iPoint],
                           Solution_Old[iPoint])
     IN IF ~Domain[iPoint] THEN BC_SkipHalo(iPoint)
        ELSE BC_Apply(iPoint, r, r.sold)
  /\ UNCHANGED <<bcfg, call, nBCCalls>>
  /\ UNCHANGED <<wfVars, xVars>>

(* the end of the vertex loop: Jacobian_i is freed and the kernel returns *)
BC_Return ==
  /\ bpc = "loop"
  /\ iVertexBC > NumVertex
  /\ bpc' = "idle"
  /\ bloc' = BLocNone
  /\ nBCCalls' = nBCCalls + 1
  /\ UNCHANGED <<bcfg, LinSysRes, Jacobian, Velocity_Old, Solution_Old, call, iVertexBC,
                 blast>>
  /\ UNCHANGED <<wfVars, xVars>>

NextBC ==
  \/ BC_Call
  \/ HeatFluxWall_Vertex
  \/ IsothermalWall_Vertex
  \/ IncWall_Vertex
  \/ IncCHT_Vertex
  \/ BC_Return

-----------------------------------------------------------------------------
(* CNSSolver::BC_Isothermal_Wall_Generic_Blowing                           *)

(* what the blowing kernel reads from the configuration, the inlet profile
   and, when the file exists, blowingTemperature.dat *)
BlowingInputs ==
  [Vel_Infty_Mag |-> I(2), Density_Ref |-> I(2), Velocity_Ref |-> I(2), Tke_Inf |-> I(1),
   Inlet_Ptotal |-> I(3), blowingTemperature |-> I(4)]

BlowingCall(Kind_Inlet, From_File, VelocityMag, tkeNeeded) ==
  [kernel |-> "CNS_Isothermal_Wall_Generic_Blowing", val_marker |-> 0,
   kind_boundary |-> "ISOTHERMAL", cht_mode |-> FALSE, PyCustom |-> FALSE,
   WallFunction |-> "NO_WALL_FUNCTION", Wall_HeatFlux |-> Zero,
   Isothermal_Temperature |-> Zero, HeatTransfer_Coefficient |-> Zero,
   HeatTransfer_Temperature |-> Zero,
   Kind_Inlet |-> Kind_Inlet, Inlet_Profile_From_File |-> From_File,
   Blowing_Density |-> I(4), Blowing_VelocityMag |-> VelocityMag,
   tkeNeeded |-> tkeNeeded]

BlowingCalls ==
  { BlowingCall("VELOCITY_BLOW", FALSE, One, FALSE),
    BlowingCall("VELOCITY_BLOW", FALSE, Zero, FALSE),
    BlowingCall("VELOCITY_BLOW", TRUE, One, TRUE),
    BlowingCall("MASS_FLOW_BLOW", FALSE, One, FALSE),
    BlowingCall("TOTAL_CONDITIONS", FALSE, One, FALSE),
    BlowingCall("TOTAL_CONDITIONS", TRUE, One, FALSE) }

(* if (Imposed_Temperature == 0): the file is read, or -99 when it is missing *)
ImposedTemperatureRead(current) ==
  IF current = Zero THEN {I(-99), BlowingInputs.blowingTemperature} ELSE {current}

(* "Inlet Type not supported by Marker Blowing." is printed, nothing more *)
BlowingInletUnsupported(c) ==
  c.Kind_Inlet \notin {"VELOCITY_BLOW", "MASS_FLOW", "MASS_FLOW_BLOW"}

(* Density and Vel_Mag of the inlet, before the reference values divide them *)
BlowingDensityVelocity(c, g) ==
  LET fromProfile == IF c.Inlet_Profile_From_File THEN BlowingInputs.Inlet_Ptotal
                     ELSE c.Blowing_VelocityMag
  IN IF c.Kind_Inlet \in {"VELOCITY_BLOW", "MASS_FLOW"}
       THEN [Density |-> g.Density, Vel_Mag |-> RMul(fromProfile, BlowingInputs.Vel_Infty_Mag)]
     ELSE IF c.Kind_Inlet = "MASS_FLOW_BLOW"
       THEN [Density |-> g.Density, Vel_Mag |-> RDiv(fromProfile, g.Density)]
     ELSE [Density |-> c.Blowing_Density, Vel_Mag |-> c.Blowing_VelocityMag]

(* the fictitious inlet state: Pressure, Density, Energy, Vel_Mag *)
BlowingInletState(c, g, nDim, ImpT) ==
  Bind(BlowingDensityVelocity(c, g), LAMBDA dv :
  Bind(RDiv(dv.Density, BlowingInputs.Density_Ref), LAMBDA Density :
  Bind(RDiv(dv.Vel_Mag, BlowingInputs.Velocity_Ref), LAMBDA Vel_Mag :
  Bind(UnitNormalOf(g.Normal, Norm(nDim, g.Normal), nDim), LAMBDA UnitNormal :
  Bind(RAdd(RMul(RDiv(I(2), Gamma_Minus_One),
                 RSqrt(RDiv(RMul(Gamma, g.Pressure), g.Density))),
            DotProduct(nDim, g.Velocity, UnitNormal)), LAMBDA Riemann :
  Bind(RSub(Riemann,
            RMul(Vel_Mag, DotProduct(nDim, [i \in Idx(nDim) |-> RNeg(UnitNormal[i])],
                                     UnitNormal))), LAMBDA s :
  Bind(RSq(RMax(Zero, RMul(RMul(R(1, 2), Gamma_Minus_One), s))), LAMBDA SoundSpeed2 :
  Bind(RDiv(RMul(SoundSpeed2, Density), Gamma), LAMBDA Pressure :
  Bind(RMul(R(1, 2), RSq(Vel_Mag)), LAMBDA kinetic :
  Bind(RLt(Zero, Vel_Mag) /\ RLt(Zero, ImpT), LAMBDA imposed :
    [Vel_Mag |-> Vel_Mag,
     imposed |-> imposed,
     Pressure |-> Pressure,
     Flow_Dir |-> [i \in Idx(nDim) |-> RNeg(UnitNormal[i])],
     Density |-> IF imposed THEN RDiv(Pressure, RMul(Gas_Constant, ImpT)) ELSE Density,
     Energy |-> IF imposed
                  THEN RAdd(RDiv(RMul(ImpT, Gas_Constant), Gamma_Minus_One), kinetic)
                  ELSE RAdd(RAdd(RDiv(Pressure, RMul(Density, Gamma_Minus_One)), kinetic),
                            IF c.tkeNeeded THEN BlowingInputs.Tke_Inf ELSE Zero)]))))))))))

(* Solution[0] = Density, Solution[iDim+1] = V_inlet[iDim+1]*Density,
   Solution[nDim+1] = Energy*Density *)
BlowingSolution(st, nDim) ==
  [i \in Idx(nVarOf(nDim)) |->
     IF i = 0 THEN st.Density
     ELSE IF i = nDim + 1 THEN RMul(st.Energy, st.Density)
     ELSE RMul(RMul(st.Vel_Mag, st.Flow_Dir[i - 1]), st.Density)]

(* the flux conv_numerics->ComputeResidual returns for the vertex, with its
   Jacobian *)
UpwindResidual(nDim) == [i \in Idx(nVarOf(nDim)) |-> I(i + 1)]
UpwindJacobian_i(nDim) == ConstMat(nVarOf(nDim), One)

(* the variables the kernel imposes strongly: 1..nDim, or every variable
   when the temperature is imposed too *)
BlowingStrongVars(imposed, nDim) ==
  IF imposed THEN 0..(nDim + 1) ELSE 1..nDim

(* the loop body for an owned vertex *)
BlowingVertex(c, iPoint, res, jac, sold, ImpT) ==
  Bind(bcfg, LAMBDA cfg :
  Bind(BlowingInletState(c, Geo(iPoint), cfg.nDim, ImpT), LAMBDA st :
  Bind(BlowingSolution(st, cfg.nDim), LAMBDA Solution :
  Bind(BlowingStrongVars(st.imposed, cfg.nDim), LAMBDA strong :
    [res |-> [i \in Idx(nVarOf(cfg.nDim)) |->
                IF i \in strong THEN Zero ELSE RAdd(res[i], UpwindResidual(cfg.nDim)[i])],
     jac |-> DeleteRows(IF cfg.implicit
                          THEN AddBlock2Diag(jac, UpwindJacobian_i(cfg.nDim)) ELSE jac,
                        nVarOf(cfg.nDim),
                        IF st.imposed THEN 0 ELSE 1,
                        IF st.imposed THEN cfg.nDim + 1 ELSE cfg.nDim),
     sold |-> [i \in Idx(nVarOf(cfg.nDim)) |->
                 IF i \in strong THEN Solution[i] ELSE sold[i]],
     vold |-> Velocity_Old[iPoint],
     Jacobian_i |-> NoJacobian_i, Wall_HeatFlux |-> Zero, Twall |-> Zero,
     Res_Conv |-> Zero, Res_Visc |-> Zero,
     outcome |-> IF BlowingInletUnsupported(c) /\ ~c.Inlet_Profile_From_File
                   THEN "printed" ELSE "done",
     error |-> ""]))))

Blowing_Vertex ==
  /\ bpc = "loop"
  /\ call.kernel = "CNS_Isothermal_Wall_Generic_Blowing"
  /\ iVertexBC <= NumVertex
  /\ LET iPoint == NodeOf(call.val_marker, iVertexBC)
         r == BlowingVertex(call, iPoint, LinSysRes[iPoint], Jacobian[iPoint],
                            Solution_Old[iPoint], Imposed_Temperature)
     IN IF ~Domain[iPoint] THEN BC_SkipHalo(iPoint)
        ELSE BC_Apply(iPoint, r, r.sold)
  /\ UNCHANGED <<bcfg, call, nBCCalls>>
  /\ UNCHANGED <<wfVars, xVars>>

-----------------------------------------------------------------------------
(* CTurbSolver::BC_Riemann, BC_TurboRiemann, BC_Giles                      *)

(* the values of the Riemann/Giles data kind *)
RiemannKinds ==
  {"TOTAL_CONDITIONS_PT", "STATIC_SUPERSONIC_INFLOW_PT", "STATIC_SUPERSONIC_INFLOW_PD",
   "DENSITY_VELOCITY", "STATIC_PRESSURE", "TOTAL_CONDITIONS_PT_1D", "STATIC_PRESSURE_1D",
   "MIXING_IN", "MIXING_OUT", "RADIAL_EQUILIBRIUM"}

TurbDispatchers == {"BC_Riemann", "BC_TurboRiemann", "BC_Giles"}

(* the kernel the switch statement calls, "none" when no case matches *)
TurbDispatch(dispatcher, Kind_Data, TurbMixingPlane) ==
  IF dispatcher \in {"BC_Riemann", "BC_TurboRiemann"}
    THEN IF Kind_Data \in {"TOTAL_CONDITIONS_PT", "STATIC_SUPERSONIC_INFLOW_PT",
                           "STATIC_SUPERSONIC_INFLOW_PD", "DENSITY_VELOCITY"}
           THEN IF dispatcher = "BC_Riemann" THEN "BC_Inlet" ELSE "BC_Inlet_Turbo"
         ELSE IF Kind_Data = "STATIC_PRESSURE" THEN "BC_Outlet"
         ELSE "none"
  ELSE IF Kind_Data \in {"TOTAL_CONDITIONS_PT", "TOTAL_CONDITIONS_PT_1D", "DENSITY_VELOCITY"}
         THEN "BC_Inlet_Turbo"
       ELSE IF Kind_Data = "MIXING_IN"
         THEN IF TurbMixingPlane THEN "BC_Inlet_MixingPlane" ELSE "BC_Inlet_Turbo"
       ELSE IF Kind_Data \in {"STATIC_PRESSURE", "MIXING_OUT", "STATIC_PRESSURE_1D",
                              "RADIAL_EQUILIBRIUM"}
         THEN "BC_Outlet"
       ELSE "none"

(* one call of a dispatcher for a marker; it returns when the kernel does *)
Turb_Dispatch ==
  /\ routine = "TurbBoundary"
  /\ turbCall.routine = "none"
  /\ \E d \in TurbDispatchers, k \in RiemannKinds, mp \in BOOLEAN :
       turbCall' = [routine |-> d, Kind_Data |-> k, called |-> TurbDispatch(d, k, mp)]
  /\ UNCHANGED <<wfVars, bcVars, routine, Imposed_Temperature, monVars, sstVars, pureVars, parVars>>

-----------------------------------------------------------------------------
(* CTurbSolver::BC_Fluid_Interface                                         *)

(* nVar of the turbulence solver (k and omega) *)
TurbNVar == 2

(* what conv_numerics and visc_numerics return for a vertex and a donor, and
   the weight of a donor *)
TurbNumerics ==
  [weight |-> R(1, 2),
   conv |-> [residual |-> [i \in Idx(TurbNVar) |-> I(2 * i + 2)],
             jacobian_i |-> ConstMat(TurbNVar, I(2))],
   visc |-> [residual |-> [i \in Idx(TurbNVar) |-> I(i + 1)],
             jacobian_i |-> ConstMat(TurbNVar, I(1))]]

(* the markers of kind FLUID_INTERFACE, by the donors of each of their vertices *)
TurbCalls ==
  { [kernel |-> "Turb_Fluid_Interface", val_marker |-> 0,
     kind_boundary |-> "FLUID_INTERFACE", cht_mode |-> FALSE, PyCustom |-> FALSE,
     WallFunction |-> "NO_WALL_FUNCTION", Wall_HeatFlux |-> Zero,
     Isothermal_Temperature |-> Zero, HeatTransfer_Coefficient |-> Zero,
     HeatTransfer_Temperature |-> Zero, nDonorVertex |-> n] : n \in {0, 2} }

(* the loop body for an owned vertex: the weighted convective flux of every
   donor is added to the residual and, through the pointer GetBlock returns,
   to the diagonal block; then the viscous flux and its block are subtracted *)
FluidInterfaceVertex(c, iPoint, res, jac) ==
  Bind(RMul(I(c.nDonorVertex), TurbNumerics.weight), LAMBDA w :
    [res |-> [i \in Idx(TurbNVar) |->
                RSub(RAdd(res[i], RMul(w, TurbNumerics.conv.residual[i])),
                     TurbNumerics.visc.residual[i])],
     jac |-> AddBlock2Diag(
               IF c.nDonorVertex > 0
                 THEN AddBlock2Diag(jac, [i \in Idx(TurbNVar) |-> [j \in Idx(TurbNVar) |->
                                            RMul(w, TurbNumerics.conv.jacobian_i[i][j])]])
                 ELSE jac,
               [i \in Idx(TurbNVar) |-> [j \in Idx(TurbNVar) |->
                  RNeg(TurbNumerics.visc.jacobian_i[i][j])]]),
     vold |-> Velocity_Old[iPoint],
     Jacobian_i |-> NoJacobian_i, Wall_HeatFlux |-> Zero, Twall |-> Zero,
     Res_Conv |-> Zero, Res_Visc |-> Zero, outcome |-> "done", error |-> ""])

FluidInterface_Vertex ==
  /\ bpc = "loop"
  /\ call.kernel = "Turb_Fluid_Interface"
  /\ iVertexBC <= NumVertex
  /\ LET iPoint == NodeOf(call.val_marker, iVertexBC)
     IN IF ~Domain[iPoint] THEN BC_SkipHalo(iPoint)
        ELSE BC_Apply(iPoint,
                      FluidInterfaceVertex(call, iPoint, LinSysRes[iPoint], Jacobian[iPoint]),
                      Solution_Old[iPoint])
  /\ UNCHANGED <<bcfg, call, nBCCalls>>
  /\ UNCHANGED <<wfVars, xVars>>

(* the turbulence solver before its boundary conditions are applied *)
InitTurbState ==
  /\ bcfg \in {[BCConfigDefault EXCEPT !.solver = "TURB", !.implicit = i] : i \in BOOLEAN}
  /\ LinSysRes = [p \in Points |-> ConstVec(TurbNVar, I(7))]
  /\ Jacobian = [p \in Points |-> [diag |-> ConstMat(TurbNVar, I(2)),
                                   off |-> ConstMat(TurbNVar, I(3)),
                                   ops |-> <<>>]]
  /\ Velocity_Old = [p \in Points |-> ConstVec(bcfg.nDim, I(9))]
  /\ Solution_Old = [p \in Points |-> ConstVec(TurbNVar, I(9))]
  /\ bpc = "idle"
  /\ call = CallNone
  /\ bloc = BLocNone
  /\ iVertexBC = 0
  /\ nBCCalls = 0
  /\ blast = BLastNone

-----------------------------------------------------------------------------
(* CSourcePieceWise_TurbSST(_new)::ResidualAxisymmetric                    *)

(* EPS is a constant of the common headers; a small positive value stands for it *)
EPS == R(1, 1000)

(* the members of the numerics object that ResidualAxisymmetric reads, as
   ComputeResidual has set them for the point *)
SSTInputs ==
  [Density_i |-> I(2), V_i2 |-> One, k |-> I(2), w |-> I(3), F1_i |-> One,
   sigma_k_1 |-> R(17, 20), sigma_k_2 |-> One,
   sigma_w_1 |-> R(1, 2), sigma_w_2 |-> R(107, 125),
   dvdy |-> One, dudx |-> One, dkdy |-> One, dwdy |-> One,
   Laminar_Viscosity_i |-> One, Eddy_Viscosity_i |-> I(20), Volume |-> I(2),
   alfa_blended |-> R(1, 2), zeta |-> I(3),
   Residual |-> <<I(5), I(6)>>,
   Coord_i1 |-> {I(-1), Zero, RMul(EPS, R(1, 2)), EPS, One}]

BelowEPS_mut(y) == RLt(y, RMul(EPS, R(1, 4)))

(* if (Coord_i[1] < EPS) return; *)
BelowEPS(y) == RLt(y, EPS)

(* the function: the residual it leaves and the denominators 1.0/Coord_i[1]
   was evaluated with *)
ResidualAxisymmetric(Coord_i1, Residual, in) ==
  IF BelowEPS(Coord_i1) THEN [Residual |-> Residual, divisors |-> {}]
  ELSE
    Bind(RDiv(One, Coord_i1), LAMBDA yinv :
      LET rhov == RMul(in.Density_i, in.V_i2)
          sigma_k_i == RAdd(RMul(in.F1_i, in.sigma_k_1),
                            RMul(RSub(One, in.F1_i), in.sigma_k_2))
          sigma_w_i == RAdd(RMul(in.F1_i, in.sigma_w_1),
                            RMul(RSub(One, in.F1_i), in.sigma_w_2))
          pk_axi == RMax(Zero,
                      RMul(RMul(RMul(R(2, 3), rhov), in.k),
                           RSub(RMul(RDiv(I(2), in.zeta),
                                     RSub(RSub(RMul(yinv, in.V_i2), in.dvdy), in.dudx)),
                                One)))
          pw_axi == RMul(RDiv(RMul(in.alfa_blended, in.zeta), in.k), pk_axi)
          cdk_axi == RSub(RMul(rhov, in.k),
                          RMul(RAdd(in.Laminar_Viscosity_i,
                                    RMul(sigma_k_i, in.Eddy_Viscosity_i)), in.dkdy))
          cdw_axi == RSub(RMul(rhov, in.w),
                          RMul(RAdd(in.Laminar_Viscosity_i,
                                    RMul(sigma_w_i, in.Eddy_Viscosity_i)), in.dwdy))
      IN [Residual |-> <<RAdd(Residual[1], RMul(RMul(yinv, in.Volume), RSub(pk_axi, cdk_axi))),
                         RAdd(Residual[2], RMul(RMul(yinv, in.Volume), RSub(pw_axi, cdw_axi)))>>,
          divisors |-> {Coord_i1}])

(* ComputeResidual has filled Residual for a point and is about to add the
   axisymmetric correction *)
SST_ComputeResidual ==
  /\ routine = "SSTSource"
  /\ sst.pc \in {"idle", "done"}
  /\ sst.calls < MaxCalls + 1
  /\ \E variant \in {"CSourcePieceWise_TurbSST", "CSourcePieceWise_TurbSST_new"},
        y \in SSTInputs.Coord_i1 :
       sst' = [pc |-> "axisymmetric", variant |-> variant,
               calls |-> sst.calls + 1,
               Coord_i1 |-> y, Residual |-> SSTInputs.Residual,
               Residual_in |-> SSTInputs.Residual, divisors |-> {}]
  /\ UNCHANGED <<wfVars, bcVars, routine, kxVars, monVars, pureVars, parVars>>

SST_ResidualAxisymmetric ==
  /\ routine = "SSTSource"
  /\ sst.pc = "axisymmetric"
  /\ LET r == ResidualAxisymmetric(sst.Coord_i1, sst.Residual, SSTInputs)
     IN sst' = [sst EXCEPT !.pc = "done", !.Residual = r.Residual,
                           !.divisors = r.divisors]
  /\ UNCHANGED <<wfVars, bcVars, routine, kxVars, monVars, pureVars, parVars>>

-----------------------------------------------------------------------------
(* The last pass of the Newton loop of SetTau_Wall_WF, at the scale of its
   tolerance.  A value is a pair <<e, t>> standing for e + t * 1e-12; the
   residual and the update are linear in U_Tau and diff, so each is applied
   to the two parts separately.                                            *)

(* the vertex of the log-law case: VelTangMod 20, WallDistMod 1e-4, wall
   density 1.2, laminar viscosity 1.8e-5; U_Tau and grad_diff around the
   root (2.05 and 21.7), the relaxation factors, and diff in units of tol *)
LogLawInputs ==
  [VelTangMod |-> I(20), WallDistMod |-> R(1, 10000), Density_Wall |-> R(6, 5),
   Lam_Visc_Wall |-> R(9, 500000),
   U_Tau |-> {I(2), R(41, 20)}, grad_diff |-> {I(21), I(22)},
   relax |-> {One, R(1, 2), R(1, 4)},
   diff |-> {I(-2), I(-1), R(-1, 2), Zero, R(1, 2), One, I(2)}]

(* the step multiplied by the gradient *)
NewtonUpdate_mut(U_Tau, relax, diff, grad_diff) == RSub(U_Tau, RMul(relax, RMul(diff, grad_diff)))

(* U_Tau = U_Tau - relax * (diff / grad_diff) *)
NewtonUpdate(U_Tau, relax, diff, grad_diff) == RSub(U_Tau, RMul(relax, RDiv(diff, grad_diff)))

(* one pass whose Y_Plus leaves the residual diff, and what the loop holds
   after it: the fallback when the pass is the one past max_iter, else the
   values to cache when the residual meets the tolerance *)
Newton_LastPass ==
  /\ routine = "NewtonLastPass"
  /\ pure.pc = "idle"
  /\ \E U \in LogLawInputs.U_Tau, g \in LogLawInputs.grad_diff,
        rx \in LogLawInputs.relax, d \in LogLawInputs.diff, capped \in BOOLEAN :
       LET in == LogLawInputs
           lhs == YPlusOf(in.Density_Wall, U, in.WallDistMod, in.Lam_Visc_Wall)
       IN pure' = [pc |-> IF capped THEN "capped"
                          ELSE IF RLt(One, RAbs(d)) THEN "newton" ELSE "stored",
                   relax |-> rx, grad_diff |-> g, diff |-> d,
                   Y_Plus |-> IF capped THEN <<FallbackYPlus, Zero>> ELSE <<lhs, RNeg(d)>>,
                   U_Tau |-> IF capped THEN <<FallbackUTau, Zero>>
                             ELSE <<NewtonUpdate(U, rx, Zero, g),
                                    NewtonUpdate(Zero, rx, d, g)>>]
  /\ UNCHANGED <<wfVars, bcVars, routine, kxVars, monVars, sstVars, parVars>>

-----------------------------------------------------------------------------
(* The scratch block Jacobian_i of the compressible wall kernels over the
   vertices of one call                                                    *)

(* the loop body of the kernel c for the owned point p, with the locals lc *)
WallKernelVertex(c, lc, p) ==
  IF c.kernel = "CNS_HeatFlux_Wall_Generic"
    THEN HeatFluxWallVertex(c.kind_boundary, c.PyCustom, lc, p, LinSysRes[p], Jacobian[p],
                            Temperature[p])
    ELSE IsothermalWallVertex(c, lc, p, LinSysRes[p], Jacobian[p])

(* one call handles the point `second` after the points of `earlier`, which
   is empty or holds one other point; next to it the same call with no
   vertex before `second` *)
Scratch_Pass ==
  /\ routine = "ScratchReuse"
  /\ pure.pc = "idle"
  /\ \E c \in CNSCalls, second \in Points :
     \E earlier \in {<<>>} \cup {<<q>> : q \in Points \ {second}} :
       LET lc0 == KernelLocals(c)
           r1 == WallKernelVertex(c, lc0, earlier[1])
           lc1 == IF earlier = <<>> THEN lc0
                  ELSE [lc0 EXCEPT !.Jacobian_i = r1.Jacobian_i,
                                   !.Wall_HeatFlux = r1.Wall_HeatFlux, !.Twall = r1.Twall]
       IN pure' = [pc |-> "done", call |-> c, second |-> second, earlier |-> earlier,
                   scratch |-> lc1.Jacobian_i,
                   alone |-> WallKernelVertex(c, lc0, second),
                   after |-> WallKernelVertex(c, lc1, second)]
  /\ UNCHANGED <<wfVars, bcVars, routine, kxVars, monVars, sstVars, parVars>>

-----------------------------------------------------------------------------
(* The shear-stress entries of AddDynamicGridResidualContribution in two
   and in three dimensions                                                 *)

(* grid velocities and unit normals of a vertex in the plane, and the factor
   total_viscosity * Area / (Density * dist_ij) *)
ShearInputs ==
  [GridVel |-> {<<I(1), I(2)>>, <<I(-1), I(3)>>, <<I(2), Zero>>, <<Zero, Zero>>},
   UnitNormal |-> {<<R(3, 5), R(4, 5)>>, <<R(-4, 5), R(3, 5)>>, <<One, Zero>>, <<Zero, I(-1)>>},
   factor |-> {One, R(1, 2)}]

(* what the shear stress alone adds to the columns 0..nDim of the energy row
   Jacobian_i[nDim + 1], for a grid velocity and a unit normal given in the
   plane; in three dimensions their third components are zero *)
ShearRow(nDim, GridVel, UnitNormal, factor) ==
  LET G == [i \in Idx(nDim) |-> IF i < 2 THEN GridVel[i + 1] ELSE Zero]
      n == [i \in Idx(nDim) |-> IF i < 2 THEN UnitNormal[i + 1] ELSE Zero]
      d == [ProjGridVel |-> Zero, GridVel2 |-> Zero, factor |-> factor]
  IN [j \in 0..nDim |-> DynamicGridJacobianTerm(j, nDim, d, DynamicGridPi(nDim, n, G), G)]

(* the two branches evaluated for the same vertex *)
Shear_Evaluate ==
  /\ routine = "DynamicGridShear"
  /\ pure.pc = "idle"
  /\ \E G \in ShearInputs.GridVel, n \in ShearInputs.UnitNormal, f \in ShearInputs.factor :
       pure' = [pc |-> "done", GridVel |-> G, UnitNormal |-> n, factor |-> f,
                row2D |-> ShearRow(2, G, n, f), row3D |-> ShearRow(3, G, n, f)]
  /\ UNCHANGED <<wfVars, bcVars, routine, kxVars, monVars, sstVars, parVars>>

-----------------------------------------------------------------------------
(* CNSSolver::SetPrimitive_Variables and CIncNSSolver::SetPrimitive_Variables *)

(* what SetPrimVar returns for each point: TRUE for a physical state *)
SetPrimVarReports == [Points -> BOOLEAN]

(* the physical points counted *)
CountNonPhysical_mut(nonPhysicalPoints, physical) ==
  nonPhysicalPoints + (IF physical THEN 1 ELSE 0)

(* nonPhysicalPoints += !physical;  if (!physical) nonPhysicalPoints++; *)
CountNonPhysical(nonPhysicalPoints, physical) ==
  nonPhysicalPoints + (IF physical THEN 0 ELSE 1)

(* the function is entered by a thread whose share of the loop is first..last *)
Prim_Call ==
  /\ routine = "SetPrimitive_Variables"
  /\ pure.pc = "idle"
  /\ \E solver \in {"CNS", "INC"}, physical \in SetPrimVarReports,
        first \in Points, last_ \in Points \cup {0} :
       /\ first <= last_ + 1
       /\ pure' = [pc |-> "loop", solver |-> solver, physical |-> physical,
                   first |-> first, last |-> last_, iPoint |-> first,
                   nonPhysicalPoints |-> 0, visited |-> {}, error |-> "",
                   returned |-> 0]
  /\ UNCHANGED <<wfVars, bcVars, routine, kxVars, monVars, sstVars, parVars>>

(* one iteration: SetPrimVar, then the count *)
Prim_Point ==
  /\ routine = "SetPrimitive_Variables"
  /\ pure.pc = "loop"
  /\ pure.iPoint <= pure.last
  /\ pure' = [pure EXCEPT
                !.nonPhysicalPoints = CountNonPhysical(@, pure.physical[pure.iPoint]),
                !.visited = @ \cup {pure.iPoint},
                !.iPoint = @ + 1]
  /\ UNCHANGED <<wfVars, bcVars, routine, kxVars, monVars, sstVars, parVars>>

(* return nonPhysicalPoints; *)
Prim_Return ==
  /\ routine = "SetPrimitive_Variables"
  /\ pure.pc = "loop"
  /\ pure.iPoint > pure.last
  /\ pure' = [pure EXCEPT !.pc = "returned", !.returned = pure.nonPhysicalPoints]
  /\ UNCHANGED <<wfVars, bcVars, routine, kxVars, monVars, sstVars, parVars>>

-----------------------------------------------------------------------------
(* The boundary kernels together, with the marker settings that the wall   *)
(* kernels of SpecBC are never called with                                 *)

CNSUnusualCalls ==
  { [CallNone EXCEPT !.kernel = "CNS_HeatFlux_Wall_Generic", !.kind_boundary = "ISOTHERMAL",
                     !.Wall_HeatFlux = I(8)],
    [CallNone EXCEPT !.kernel = "CNS_HeatFlux_Wall_Generic", !.kind_boundary = "HEAT_FLUX",
                     !.Wall_HeatFlux = I(8), !.WallFunction = "STANDARD_FUNCTION"],
    [CallNone EXCEPT !.kernel = "CNS_Isothermal_Wall_Generic", !.kind_boundary = "ISOTHERMAL",
                     !.Isothermal_Temperature = I(6), !.WallFunction = "STANDARD_FUNCTION"] }

KernelCalls(solver) ==
  IF solver = "CNS" THEN CNSCalls \cup CNSUnusualCalls \cup BlowingCalls
  ELSE IF solver = "TURB" THEN TurbCalls
  ELSE IncCalls

KernelConfigs ==
  {[BCConfigDefault EXCEPT !.implicit = i, !.dynamic_grid = g] : i \in BOOLEAN, g \in BOOLEAN}
  \cup
  {[BCConfigDefault EXCEPT !.solver = "INC", !.implicit = i, !.energy = e]
     : i \in BOOLEAN, e \in BOOLEAN}

(* a boundary kernel is called for one marker: the statements before the
   vertex loop *)
Kernel_Call ==
  /\ routine \in {"BoundaryKernel", "TurbBoundary"}
  /\ bpc = "idle"
  /\ nBCCalls < MaxBCCalls
  /\ \E m \in Markers, c \in KernelCalls(bcfg.solver) :
       /\ call' = [c EXCEPT !.val_marker = m]
       /\ IF c.kernel = "CNS_Isothermal_Wall_Generic_Blowing"
            THEN Imposed_Temperature' \in ImposedTemperatureRead(Imposed_Temperature)
            ELSE UNCHANGED Imposed_Temperature
       /\ IF KernelEntryError(c) # ""
            THEN /\ bpc' = "aborted"
                 /\ blast' = [BLastNone EXCEPT !.outcome = "error",
                                               !.error = KernelEntryError(c)]
                 /\ UNCHANGED <<bloc, iVertexBC>>
            ELSE /\ bpc' = "loop"
                 /\ bloc' = KernelLocals(c)
                 /\ iVertexBC' = 1
                 /\ blast' = BLastNone
  /\ UNCHANGED <<bcfg, LinSysRes, Jacobian, Velocity_Old, Solution_Old, nBCCalls>>
  /\ UNCHANGED <<wfVars, routine, turbCall, monVars, sstVars, pureVars, parVars>>

-----------------------------------------------------------------------------
(* SetTau_Wall_WF run by the threads of every partition.  The partitions   *)
(* share no memory and meet only in the blocking all-reduce, so they are   *)
(* run one after the other; the threads of a partition interleave.         *)

Threads == 1..NumThreads
Ranks == 1..NumRanks
MasterThread == 1

(* the points of the partition's markers *)
ParPoints == 1..(NumMarker * NumParVertex)

(* every vertex of a marker on the marker's first node *)
ParNodeOf_mut(m, v) == (m - 1) * NumParVertex + 1

(* geometry->vertex[iMarker][iVertex]->GetNode(): a marker lists a node once *)
ParNodeOf(m, v) == (m - 1) * NumParVertex + v

(* how the vertex body ends for point p of partition r *)
VertexClasses == <<"small", "capped", "converged", "halo">>
ClassOf(r, p, layout) == VertexClasses[((p + r + layout) % 4) + 1]

RECURSIVE SumOver(_, _)
SumOver(f, n) == IF n = 0 THEN 0 ELSE f[n] + SumOver(f, n - 1)

(* smallYPlusCounter++ / notConvergedCounter++ on the thread's own counter *)
CountVertex(counter, class, counted) == IF class = counted THEN counter + 1 ELSE counter

(* the accumulation replaced by an assignment *)
MergeCounter_mut(globalCounter, localCounter) == localCounter

(* SU2_OMP_ATOMIC globalCounter += localCounter *)
MergeCounter(globalCounter, localCounter) == globalCounter + localCounter

ThreadsAt(phase) == [t \in Threads |-> phase]
NoCounts == [t \in Threads |-> 0]

ParStart(comm, layout) ==
  [Comm_Level |-> comm, layout |-> layout, phase |-> "idle", calls |-> 0, rank |-> 1,
   iMarker |-> 1, iVertex |-> 1, tpc |-> ThreadsAt("done"),
   notConvergedCounter |-> NoCounts, smallYPlusCounter |-> NoCounts,
   globalCounter1 |-> [r \in Ranks |-> 0], globalCounter2 |-> [r \in Ranks |-> 0],
   sent1 |-> [r \in Ranks |-> 0], sent2 |-> [r \in Ranks |-> 0],
   allreduce |-> [r \in Ranks |-> <<>>],
   wrote |-> [p \in ParPoints |-> {}],
   result |-> [notConverged |-> 0, smallYPlus |-> 0]]

(* the threads of the first partition enter the routine *)
Par_Call ==
  /\ routine = "ParallelPass"
  /\ par.phase = "idle"
  /\ par.calls < MaxParCalls
  /\ par' = [par EXCEPT !.phase = "running", !.rank = 1, !.iMarker = 1, !.iVertex = 1,
                        !.tpc = ThreadsAt("loop"),
                        !.notConvergedCounter = NoCounts, !.smallYPlusCounter = NoCounts,
                        !.sent1 = [r \in Ranks |-> 0], !.sent2 = [r \in Ranks |-> 0],
                        !.allreduce = [r \in Ranks |-> <<>>],
                        !.wrote = [p \in ParPoints |-> {}]]
  /\ UNCHANGED <<wfVars, bcVars, routine, kxVars, monVars, sstVars, pureVars>>

(* SU2_OMP_FOR_DYN: the next vertex of the marker goes to one thread, which
   runs the loop body on it; wrote holds, for the marker being processed, the
   threads that have written the caches and the node values of each point *)
Par_Vertex ==
  /\ routine = "ParallelPass"
  /\ par.phase = "running"
  /\ par.iMarker <= NumMarker
  /\ \E t \in Threads :
       LET p == ParNodeOf(par.iMarker, par.iVertex)
           class == ClassOf(par.rank, p, par.layout)
           lastVertex == par.iVertex = NumParVertex
       IN par' = [par EXCEPT
                    !.smallYPlusCounter[t] = CountVertex(@, class, "small"),
                    !.notConvergedCounter[t] = CountVertex(@, class, "capped"),
                    !.wrote = [q \in ParPoints |->
                                 (IF par.iVertex = 1 THEN {} ELSE @[q])
                                 \cup (IF q = p /\ class \in {"capped", "converged"}
                                         THEN {t} ELSE {})],
                    !.iVertex = IF lastVertex THEN 1 ELSE @ + 1,
                    !.iMarker = IF lastVertex THEN @ + 1 ELSE @]
  /\ UNCHANGED <<wfVars, bcVars, routine, kxVars, monVars, sstVars, pureVars>>

(* after the loops: without COMM_FULL the thread returns; with it the master
   thread zeroes the two static counters and every thread waits at the
   barrier of ompMasterAssignBarrier *)
Par_LeaveLoops ==
  /\ routine = "ParallelPass"
  /\ par.phase = "running"
  /\ par.iMarker > NumMarker
  /\ \E t \in Threads :
       /\ par.tpc[t] = "loop"
       /\ par' = IF par.Comm_Level # "COMM_FULL"
                   THEN [par EXCEPT !.tpc[t] = "done"]
                 ELSE IF t = MasterThread
                   THEN [par EXCEPT !.tpc[t] = "assigned",
                                    !.globalCounter1[par.rank] = 0,
                                    !.globalCounter2[par.rank] = 0]
                 ELSE [par EXCEPT !.tpc[t] = "assigned"]
  /\ UNCHANGED <<wfVars, bcVars, routine, kxVars, monVars, sstVars, pureVars>>

(* a barrier lets the threads go on once all of them have arrived; after the
   second one only the master thread has work left *)
Par_Barrier ==
  /\ routine = "ParallelPass"
  /\ par.phase = "running"
  /\ \/ /\ par.tpc = ThreadsAt("assigned")
        /\ par' = [par EXCEPT !.tpc = ThreadsAt("merge1")]
     \/ /\ par.tpc = ThreadsAt("merged")
        /\ par' = [par EXCEPT !.tpc = [t \in Threads |->
                                         IF t = MasterThread THEN "master" ELSE "done"]]
  /\ UNCHANGED <<wfVars, bcVars, routine, kxVars, monVars, sstVars, pureVars>>

(* the two atomic additions of a thread, one step each *)
Par_Merge ==
  /\ routine = "ParallelPass"
  /\ par.phase = "running"
  /\ \E t \in Threads :
       \/ /\ par.tpc[t] = "merge1"
          /\ par' = [par EXCEPT
                       !.globalCounter1[par.rank] = MergeCounter(@, par.notConvergedCounter[t]),
                       !.tpc[t] = "merge2"]
       \/ /\ par.tpc[t] = "merge2"
          /\ par' = [par EXCEPT
                       !.globalCounter2[par.rank] = MergeCounter(@, par.smallYPlusCounter[t]),
                       !.tpc[t] = "merged"]
  /\ UNCHANGED <<wfVars, bcVars, routine, kxVars, monVars, sstVars, pureVars>>

(* SU2_OMP_MASTER: the partition hands its two sums to SU2_MPI::Allreduce *)
Par_Allreduce ==
  /\ routine = "ParallelPass"
  /\ par.phase = "running"
  /\ par.tpc[MasterThread] = "master"
  /\ par' = [par EXCEPT !.sent1[par.rank] = par.globalCounter1[par.rank],
                        !.sent2[par.rank] = par.globalCounter2[par.rank],
                        !.allreduce[par.rank] = @ \o <<"globalCounter1", "globalCounter2">>,
                        !.tpc[MasterThread] = "done"]
  /\ UNCHANGED <<wfVars, bcVars, routine, kxVars, monVars, sstVars, pureVars>>

(* the threads of the next partition enter; after the last partition the
   all-reduce completes and every master thread holds the sums *)
Par_NextRank ==
  /\ routine = "ParallelPass"
  /\ par.phase = "running"
  /\ par.tpc = ThreadsAt("done")
  /\ par' = IF par.rank < NumRanks
              THEN [par EXCEPT !.rank = @ + 1, !.iMarker = 1, !.iVertex = 1,
                               !.tpc = ThreadsAt("loop"),
                               !.notConvergedCounter = NoCounts,
                               !.smallYPlusCounter = NoCounts]
              ELSE [par EXCEPT !.phase = "idle", !.calls = @ + 1,
                               !.result = [notConverged |-> SumOver(par.sent1, NumRanks),
                                           smallYPlus |-> SumOver(par.sent2, NumRanks)]]
  /\ UNCHANGED <<wfVars, bcVars, routine, kxVars, monVars, sstVars, pureVars>>

-----------------------------------------------------------------------------
(* CNSSolver::Buffet_Monitoring                                            *)

(* the tags of the monitored surfaces: GetMarker_Monitoring_TagBound *)
MonitoringTags == <<"upper", "lower">>

(* Buffet_Sensor[iMarker][iVertex] * Area / Sref, in units of 1/4 *)
BuffetSensorTerm(m, v) == ((m + v) % 3) + 1

(* what the other partitions add in SU2_MPI::Allreduce *)
RemoteBuffetMetric == 4

(* the metrics hold what an earlier pass left in them *)
MonStarts ==
  { [Monitoring |-> mo, Tag |-> tg, pc |-> "idle", calls |-> 0, iMarker |-> 0, iVertex |-> 0,
     Total_Buffet_Metric |-> 7,
     Surface_Buffet_Metric |-> [s \in DOMAIN MonitoringTags |-> 7],
     Buffet_Metric |-> [m \in Markers |-> 7],
     MyTotal_Buffet_Metric |-> 0]
      : mo \in [Markers -> BOOLEAN],
        tg \in [Markers -> {MonitoringTags[1], MonitoringTags[2], "far"}] }

(* entry: the total and the per-surface metrics are reset *)
Buffet_Call ==
  /\ routine = "Buffet_Monitoring"
  /\ mon.pc = "idle"
  /\ mon.calls < MaxCalls + 1
  /\ mon' = [mon EXCEPT !.pc = "marker", !.iMarker = 1, !.iVertex = 0,
                        !.Total_Buffet_Metric = 0,
                        !.Surface_Buffet_Metric = [s \in DOMAIN MonitoringTags |-> 0]]
  /\ allreduced' = <<>>
  /\ UNCHANGED <<wfVars, bcVars, routine, kxVars, sstVars, pureVars, parVars>>

(* one step of the marker loop: the reset of the marker's metric, one vertex
   of a viscous wall, or the end of the marker's iteration *)
Buffet_Marker ==
  /\ routine = "Buffet_Monitoring"
  /\ mon.pc = "marker"
  /\ mon.iMarker <= NumMarker
  /\ LET m == mon.iMarker
         viscous == config.Marker[m].Viscous_Wall
     IN IF mon.iVertex = 0
          THEN mon' = [mon EXCEPT !.Buffet_Metric[m] = 0, !.iVertex = 1]
        ELSE IF viscous /\ mon.iVertex <= NumVertex
          THEN mon' = [mon EXCEPT
                         !.Buffet_Metric[m] =
                            IF mon.Monitoring[m] THEN @ + BuffetSensorTerm(m, mon.iVertex)
                            ELSE @,
                         !.iVertex = @ + 1]
        ELSE mon' = [mon EXCEPT
                       !.Total_Buffet_Metric =
                          IF viscous /\ mon.Monitoring[m] THEN @ + mon.Buffet_Metric[m] ELSE @,
                       !.Surface_Buffet_Metric =
                          [s \in DOMAIN MonitoringTags |->
                             IF viscous /\ mon.Monitoring[m] /\ mon.Tag[m] = MonitoringTags[s]
                               THEN mon.Buffet_Metric[m] ELSE @[s]],
                       !.iMarker = @ + 1, !.iVertex = 0]
  /\ UNCHANGED <<allreduced>>
  /\ UNCHANGED <<wfVars, bcVars, routine, kxVars, sstVars, pureVars, parVars>>

(* after the marker loop: the two calls of SU2_MPI::Allreduce *)
Buffet_Reduce ==
  /\ routine = "Buffet_Monitoring"
  /\ mon.pc = "marker"
  /\ mon.iMarker > NumMarker
  /\ mon' = [mon EXCEPT !.pc = "idle", !.calls = @ + 1,
                        !.MyTotal_Buffet_Metric = mon.Total_Buffet_Metric,
                        !.Total_Buffet_Metric = @ + RemoteBuffetMetric,
                        !.Surface_Buffet_Metric =
                           [s \in DOMAIN MonitoringTags |-> @[s] + RemoteBuffetMetric]]
  /\ allreduced' = allreduced \o <<"Total_Buffet_Metric", "Surface_Buffet_Metric">>
  /\ UNCHANGED <<wfVars, bcVars, routine, kxVars, sstVars, pureVars, parVars>>

-----------------------------------------------------------------------------
(* The two specifications                                                  *)

NextWF == SetTau_Call \/ SetTau_Running

vars == <<wfVars, bcVars, xVars>>

TurbCallNone == [routine |-> "none", Kind_Data |-> "none", called |-> "none"]

(* the routine under study and the state of the others before they run *)
InitOther(r, monStarts, parStarts) ==
  /\ routine = r
  /\ Imposed_Temperature = Zero
  /\ turbCall = TurbCallNone
  /\ allreduced = <<>>
  /\ mon \in monStarts
  /\ sst = IF r = "SSTSource"
             THEN [pc |-> "idle", variant |-> "none", calls |-> 0, Coord_i1 |-> Zero,
                   Residual |-> <<Zero, Zero>>, Residual_in |-> <<Zero, Zero>>,
                   divisors |-> {}]
             ELSE "none"
  /\ pure = [pc |-> "idle"]
  /\ par \in parStarts

InitWF == InitWFState /\ InitBCState({BCConfigDefault}) /\ InitOther("SetTau_Wall_WF", {"none"}, {"none"})

WFConfigDefault ==
  [max_iter |-> 1, MinYPlus |-> I(5), Comm_Level |-> "COMM_FULL",
   Marker |-> MarkerLayout("HEAT_FLUX")]

InitBC ==
  /\ InitBCState(BCConfigs)
  /\ InitOther("WallKernel", {"none"}, {"none"})
  /\ config = WFConfigDefault
  /\ Domain \in DomainLayouts
  /\ Temperature = [p \in Points |-> I(3)]
  /\ Tau_Wall = [p \in Points |-> I(-1)]
  /\ YPlus = [m \in Markers |-> [v \in Vertices |-> Zero]]
  /\ EddyViscWall = [m \in Markers |-> [v \in Vertices |-> Zero]]
  /\ UTau = [m \in Markers |-> [v \in Vertices |-> Zero]]
  /\ pc = "idle"
  /\ iMarker = 0
  /\ iVertex = 0
  /\ loc = LocNone
  /\ notConvergedCounter = 0
  /\ smallYPlusCounter = 0
  /\ reported = [notConverged |-> 0, smallYPlus |-> 0]
  /\ nCalls = 0
  /\ last = LastNone

SpecWF == InitWF /\ [][NextWF]_vars

(* a started call is never suspended: every thread runs it to completion *)
FairSpecWF == SpecWF /\ WF_vars(SetTau_Running)

SpecBC == InitBC /\ [][NextBC]_vars

(* SetTau_Wall_WF has not been called *)
InitWFIdle ==
  /\ config = WFConfigDefault
  /\ Domain \in DomainLayouts
  /\ Temperature = [p \in Points |-> I(3)]
  /\ Tau_Wall = [p \in Points |-> I(-1)]
  /\ YPlus = [m \in Markers |-> [v \in Vertices |-> Zero]]
  /\ EddyViscWall = [m \in Markers |-> [v \in Vertices |-> Zero]]
  /\ UTau = [m \in Markers |-> [v \in Vertices |-> Zero]]
  /\ pc = "idle"
  /\ iMarker = 0
  /\ iVertex = 0
  /\ loc = LocNone
  /\ notConvergedCounter = 0
  /\ smallYPlusCounter = 0
  /\ reported = [notConverged |-> 0, smallYPlus |-> 0]
  /\ nCalls = 0
  /\ last = LastNone

ParStarts == {ParStart(c, k) : c \in CommLevels, k \in 0..3}

(* the routines of the solvers, one of them exercised by each run *)
InitSolver ==
  \/ InitWF
  \/ InitBCState(KernelConfigs) /\ InitOther("BoundaryKernel", {"none"}, {"none"}) /\ InitWFIdle
  \/ InitTurbState /\ InitOther("TurbBoundary", {"none"}, {"none"}) /\ InitWFIdle
  \/ InitBCState({BCConfigDefault}) /\ InitOther("ParallelPass", {"none"}, ParStarts)
       /\ InitWFIdle
  \/ InitBCState({BCConfigDefault}) /\ InitOther("Buffet_Monitoring", MonStarts, {"none"})
       /\ InitWFIdle
  \/ InitBCState({BCConfigDefault}) /\ InitOther("SSTSource", {"none"}, {"none"})
       /\ InitWFIdle
  \/ InitBCState({BCConfigDefault}) /\ InitOther("NewtonLastPass", {"none"}, {"none"})
       /\ InitWFIdle
  \/ InitBCState({k \in KernelConfigs : k.solver = "CNS"})
       /\ InitOther("ScratchReuse", {"none"}, {"none"}) /\ InitWFIdle
  \/ InitBCState({BCConfigDefault}) /\ InitOther("DynamicGridShear", {"none"}, {"none"})
       /\ InitWFIdle
  \/ InitBCState({BCConfigDefault}) /\ InitOther("SetPrimitive_Variables", {"none"}, {"none"})
       /\ InitWFIdle

Solver_SetTau_Call == routine = "SetTau_Wall_WF" /\ SetTau_Call

NextSolver ==
  \/ Solver_SetTau_Call
  \/ SetTau_Running
  \/ Kernel_Call
  \/ HeatFluxWall_Vertex
  \/ IsothermalWall_Vertex
  \/ IncWall_Vertex
  \/ IncCHT_Vertex
  \/ Blowing_Vertex
  \/ FluidInterface_Vertex
  \/ BC_Return
  \/ Turb_Dispatch
  \/ Buffet_Call
  \/ Buffet_Marker
  \/ Buffet_Reduce
  \/ Par_Call
  \/ Par_Vertex
  \/ Par_LeaveLoops
  \/ Par_Barrier
  \/ Par_Merge
  \/ Par_Allreduce
  \/ Par_NextRank
  \/ SST_ComputeResidual
  \/ SST_ResidualAxisymmetric
  \/ Newton_LastPass
  \/ Scratch_Pass
  \/ Shear_Evaluate
  \/ Prim_Call
  \/ Prim_Point
  \/ Prim_Return

SpecSolver == InitSolver /\ [][NextSolver]_vars


-----------------------------------------------------------------------------
(* Properties of SetTau_Wall_WF                                            *)

(* C1: an owned vertex whose initial y+ estimate, computed before any Newton
   step, is below the configured minimum is skipped: the step that handles it
   leaves tau_wall, the YPlus/EddyViscWall/UTau caches and the node
   temperature unchanged, adds exactly 1 to the small-y+ counter and moves on
   to the next vertex without entering the Newton loop. *)
C1_SmallYPlusVertexSkipped ==
  [][ ( /\ pc = "vertex"
        /\ iVertex <= NumVertex
        /\ Domain[NodeOf(iMarker, iVertex)]
        /\ RLt(last'.Y_Plus_Start, config.MinYPlus) )
      => ( /\ Tau_Wall' = Tau_Wall
           /\ YPlus' = YPlus
           /\ EddyViscWall' = EddyViscWall
           /\ UTau' = UTau
           /\ Temperature' = Temperature
           /\ smallYPlusCounter' = smallYPlusCounter + 1
           /\ notConvergedCounter' = notConvergedCounter
           /\ pc' = "vertex"
           /\ iVertex' = iVertex + 1 ) ]_vars

C1_Witness ==
  /\ last.outcome = "skipped"
  /\ RLt(last.Y_Plus_Start, config.MinYPlus)
  /\ smallYPlusCounter = last.preSmall + 1
  /\ Tau_Wall[last.point] = I(-1)

(* C2: a vertex whose Newton iteration reaches the iteration cap adds exactly
   1 to the non-converged counter, gets YPlus = 30, EddyViscWall = 1 and
   UTau = 1 cached, still gets tau_wall written, computed from y+ = 30, and
   the call goes on (no error). *)
C2_CappedVertexGetsFallback ==
  last.outcome = "capped" =>
    /\ notConvergedCounter = last.preNotConv + 1
    /\ YPlus[last.marker][last.vertex] = I(30)
    /\ EddyViscWall[last.marker][last.vertex] = One
    /\ UTau[last.marker][last.vertex] = One
    /\ Tau_Wall[last.point] =
         RMul(RDiv(One, loc.Density_Wall),
              RSq(RDiv(RMul(I(30), loc.Lam_Visc_Wall), loc.WallDistMod)))
    /\ pc \in {"vertex", "marker", "reduce"}

C2_Witness ==
  /\ last.outcome = "capped"
  /\ YPlus[last.marker][last.vertex] = I(30)
  /\ Tau_Wall[last.point] # I(-1)
  /\ notConvergedCounter >= 1

(* C3: for every processed vertex the number of Newton update steps never
   exceeds the configured maximum iteration count. *)
C3_NewtonStepsWithinMaxIter == last.nNewton <= config.max_iter

(* C4: the Newton loop of every vertex terminates, so every call that has
   started reaches the counter reduction after the marker loops. *)
C4_CallReachesReduction ==
  /\ (pc = "newton") ~> (pc = "store")
  /\ (pc \in {"marker", "vertex", "newton", "store"}) ~> (pc = "reduce")

C4_Witness ==
  /\ pc = "reduce"
  /\ \E m \in Markers, v \in Vertices : UTau[m][v] # Zero

-----------------------------------------------------------------------------
(* Properties of the wall boundary kernels                                 *)

CurPoint == NodeOf(call.val_marker, iVertexBC)

(* the running kernel is about to execute its loop body for an owned vertex *)
OwnedVertexStep(kernels) ==
  /\ bpc = "loop"
  /\ call.kernel \in kernels
  /\ iVertexBC <= NumVertex
  /\ Domain[CurPoint]

WallKernels == {"CNS_HeatFlux_Wall_Generic", "CNS_Isothermal_Wall_Generic", "Inc_Wall_Generic"}
AllWallKernels == WallKernels \cup {"Inc_ConjugateHeat_Interface"}

(* C5: after BC_HeatFlux_Wall_Generic, BC_Isothermal_Wall_Generic or the
   incompressible BC_Wall_Generic has handled an owned point of a static
   wall, the momentum residual entries 1..nDim of the point are exactly zero
   and, with an implicit scheme, every block addition of the kernel to the
   point is followed by DeleteValsRowi of each momentum row, so that these
   rows hold 1 on the diagonal and 0 elsewhere. *)
C5_MomentumRowsReset ==
  ( /\ blast.outcome \in {"done", "noenergy"}
    /\ call.kernel \in WallKernels
    /\ ~bcfg.dynamic_grid )
  => LET p == blast.point
         nDim == bcfg.nDim
         J == Jacobian[p]
     IN /\ \A i \in 1..nDim : LinSysRes[p][i] = Zero
        /\ bcfg.implicit =>
             /\ \A i \in 1..nDim : /\ J.diag[i] = UnitRow(nDim + 2, i)
                                   /\ J.off[i] = ZeroVec(nDim + 2)
             /\ \A k \in 1..Len(J.ops) :
                  J.ops[k][1] = "AddBlock2Diag" =>
                    \A i \in 1..nDim :
                      \E l \in (k + 1)..Len(J.ops) : J.ops[l] = <<"DeleteValsRowi", i>>

C5_Witness ==
  /\ blast.outcome = "done"
  /\ call.kernel = "CNS_HeatFlux_Wall_Generic"
  /\ call.kind_boundary = "HEAT_TRANSFER"
  /\ bcfg.implicit
  /\ ~bcfg.dynamic_grid
  /\ Len(Jacobian[blast.point].ops) = bcfg.nDim + 1
  /\ Jacobian[blast.point].ops[1][1] = "AddBlock2Diag"
  /\ LinSysRes[blast.point][1] = Zero

(* C6: after any wall kernel (heat flux, heat transfer, isothermal,
   conjugate heat; compressible or incompressible) has handled an owned wall
   vertex, the old velocity of the point is the grid velocity of the point on
   a dynamic grid and the zero vector otherwise. *)
C6_OldVelocityIsWallVelocity ==
  ( /\ blast.outcome \in {"done", "noenergy"}
    /\ call.kernel \in AllWallKernels )
  => Velocity_Old[blast.point] =
       IF bcfg.dynamic_grid THEN Geo(blast.point).GridVel ELSE ZeroVec(bcfg.nDim)

C6_Witness ==
  /\ blast.outcome = "done"
  /\ call.cht_mode
  /\ bcfg.dynamic_grid
  /\ Velocity_Old[blast.point] = Geo(blast.point).GridVel
  /\ Velocity_Old[blast.point] # ZeroVec(bcfg.nDim)

(* the isothermal kernel of either solver is about to handle an owned vertex
   of a static wall that is neither a custom patch nor a CHT interface *)
IsothermalStaticStep ==
  /\ OwnedVertexStep({"CNS_Isothermal_Wall_Generic", "Inc_Wall_Generic"})
  /\ call.kind_boundary = "ISOTHERMAL"
  /\ ~call.PyCustom
  /\ ~call.cht_mode
  /\ ~bcfg.dynamic_grid

(* thermal_conductivity * (T_wall - T_neighbor) / dist * Area at point p *)
IsothermalHeatRate(p) ==
  LET g == Geo(p)
      nDim == bcfg.nDim
      k == IF bcfg.solver = "CNS"
             THEN ThermalConductivityOf(g.laminar_viscosity, g.eddy_viscosity)
             ELSE g.ThermalConductivity
      T_wall == RDiv(call.Isothermal_Temperature, Temperature_Ref)
  IN RMul(RDiv(RMul(k, RSub(T_wall, g.There)), Distance(nDim, g.Coord_i, g.Coord_j)),
          Norm(nDim, g.Normal))

(* the step changes the energy residual of p by the amount d or by -d, leaves
   the density residual of p and the residual of every other point alone and
   adds nothing to the momentum residual of p, which it resets *)
OnlyEnergyResidualChanges(p, d) ==
  /\ \/ LinSysRes'[p][bcfg.nDim + 1] = RSub(LinSysRes[p][bcfg.nDim + 1], d)
     \/ LinSysRes'[p][bcfg.nDim + 1] = RAdd(LinSysRes[p][bcfg.nDim + 1], d)
  /\ LinSysRes'[p][0] = LinSysRes[p][0]
  /\ \A i \in 1..bcfg.nDim : LinSysRes'[p][i] = Zero
  /\ \A q \in Points \ {p} : LinSysRes'[q] = LinSysRes[q]

(* C7 as stated: on a static wall without custom patch and without CHT the
   isothermal kernel changes the energy residual of each owned wall point by
   exactly thermal_conductivity * (T_wall - T_neighbor) / dist * Area, up to
   the sign convention, and adds nothing non-zero to any other entry. *)
C7_IsothermalResidual_AsStated ==
  [][ IsothermalStaticStep
      => OnlyEnergyResidualChanges(CurPoint, IsothermalHeatRate(CurPoint)) ]_vars

(* C7, amended: the same holds whenever the energy equation is active (it
   always is in the compressible solver), and the sign is fixed: the energy
   residual decreases by thermal_conductivity * (T_wall - T_neighbor) / dist
   * Area. *)
C7_IsothermalResidual ==
  [][ (IsothermalStaticStep /\ (bcfg.solver = "INC" => bcfg.energy))
      => /\ OnlyEnergyResidualChanges(CurPoint, IsothermalHeatRate(CurPoint))
         /\ LinSysRes'[CurPoint][bcfg.nDim + 1] =
              RSub(LinSysRes[CurPoint][bcfg.nDim + 1], IsothermalHeatRate(CurPoint)) ]_vars

C7_Witness ==
  /\ blast.outcome = "done"
  /\ call.kernel = "Inc_Wall_Generic"
  /\ call.kind_boundary = "ISOTHERMAL"
  /\ bcfg.energy
  /\ ~bcfg.dynamic_grid
  /\ LinSysRes[blast.point][bcfg.nDim + 1] = RSub(I(7), blast.Res_Visc)
  /\ blast.Res_Visc # Zero

(* the heat-flux kernel of either solver is about to handle an owned vertex
   of a static wall; in the incompressible solver the energy equation is
   active and there is no streamwise-periodic temperature *)
HeatFluxStaticStep ==
  /\ OwnedVertexStep({"CNS_HeatFlux_Wall_Generic", "Inc_Wall_Generic"})
  /\ call.kind_boundary = "HEAT_FLUX"
  /\ ~bcfg.dynamic_grid
  /\ bcfg.solver = "INC" => (bcfg.energy /\ ~bcfg.streamwise_periodic_temperature)

(* the prescribed non-dimensional wall heat flux at point p: the marker's
   value over the reference heat flux, or the value of the custom patch *)
PrescribedHeatFlux(p) ==
  IF call.PyCustom THEN Geo(p).CustomBoundaryHeatFlux
  ELSE RDiv(call.Wall_HeatFlux, Heat_Flux_Ref)

(* C8: on a static wall the heat-flux kernel changes the energy residual of
   each owned wall point by exactly -q_w * Area, with q_w the prescribed
   non-dimensional wall heat flux and Area the norm of the vertex normal; the
   convective part is zero. *)
C8_HeatFluxResidual ==
  [][ HeatFluxStaticStep
      => /\ LinSysRes'[CurPoint][bcfg.nDim + 1] =
              RSub(LinSysRes[CurPoint][bcfg.nDim + 1],
                   RMul(PrescribedHeatFlux(CurPoint), Norm(bcfg.nDim, Geo(CurPoint).Normal)))
         /\ blast'.Res_Conv = Zero ]_vars

C8_Witness ==
  /\ blast.outcome = "done"
  /\ call.kind_boundary = "HEAT_FLUX"
  /\ ~call.PyCustom
  /\ ~bcfg.dynamic_grid
  /\ blast.Res_Conv = Zero
  /\ LinSysRes[blast.point][bcfg.nDim + 1] =
       RSub(I(7), RMul(I(2), Norm(bcfg.nDim, Geo(blast.point).Normal)))

(* what the heat-flux kernel with zero prescribed heat flux makes of point p *)
ZeroHeatFluxResult(p) ==
  HeatFluxWallVertex("HEAT_FLUX", call.PyCustom,
                     HeatFluxWallLocals([call EXCEPT !.kind_boundary = "HEAT_FLUX",
                                                     !.Wall_HeatFlux = Zero]),
                     p, LinSysRes[p], Jacobian[p], Temperature[p])

(* C9: with Transfer_Coefficient = 0 the heat-transfer kernel leaves the
   residual and the Jacobian of every wall point exactly as the heat-flux
   kernel with zero prescribed heat flux would, whatever the vertex state and
   for explicit and implicit schemes alike. *)
C9_ZeroCoefficientIsZeroHeatFlux ==
  [][ ( /\ OwnedVertexStep({"CNS_HeatFlux_Wall_Generic"})
        /\ call.kind_boundary = "HEAT_TRANSFER"
        /\ bloc.Transfer_Coefficient = Zero )
      => /\ LinSysRes'[CurPoint] = ZeroHeatFluxResult(CurPoint).res
         /\ Jacobian'[CurPoint].diag = ZeroHeatFluxResult(CurPoint).jac.diag
         /\ Jacobian'[CurPoint].off = ZeroHeatFluxResult(CurPoint).jac.off
         /\ \A q \in Points \ {CurPoint} :
              LinSysRes'[q] = LinSysRes[q] /\ Jacobian'[q] = Jacobian[q] ]_vars

C9_Witness ==
  /\ blast.outcome = "done"
  /\ call.kernel = "CNS_HeatFlux_Wall_Generic"
  /\ call.kind_boundary = "HEAT_TRANSFER"
  /\ call.HeatTransfer_Coefficient = Zero
  /\ ~call.PyCustom
  /\ bcfg.implicit
  /\ Jacobian[blast.point].ops[1][1] = "AddBlock2Diag"
  /\ blast.Wall_HeatFlux = Zero

(* C10: a conjugate-heat kernel called with a coupling method that is neither
   an averaged-temperature nor a direct-temperature law never returns
   normally: the call ends in the fatal error. *)
C10_UnknownCouplingIsFatal ==
  ~ ( /\ bpc = "idle"
      /\ call.cht_mode
      /\ bcfg.Kind_CHT_Coupling \notin (AveragedLaws \cup DirectLaws) )

-----------------------------------------------------------------------------
(* Properties of the boundary kernels together                             *)

(* the boundary kinds each kernel has a branch for *)
C11_Recognised(kernel) ==
  IF kernel = "Inc_Wall_Generic" THEN {"HEAT_FLUX", "ISOTHERMAL"}
  ELSE IF kernel = "CNS_HeatFlux_Wall_Generic" THEN {"HEAT_FLUX", "HEAT_TRANSFER"}
  ELSE {"VELOCITY_BLOW", "MASS_FLOW", "MASS_FLOW_BLOW"}

(* the data kinds each dispatcher of CTurbSolver has a case for *)
C11_RecognisedData(dispatcher) ==
  IF dispatcher = "BC_Giles"
    THEN {"TOTAL_CONDITIONS_PT", "TOTAL_CONDITIONS_PT_1D", "DENSITY_VELOCITY", "MIXING_IN",
          "STATIC_PRESSURE", "MIXING_OUT", "STATIC_PRESSURE_1D", "RADIAL_EQUILIBRIUM"}
    ELSE {"TOTAL_CONDITIONS_PT", "STATIC_SUPERSONIC_INFLOW_PT", "STATIC_SUPERSONIC_INFLOW_PD",
          "DENSITY_VELOCITY", "STATIC_PRESSURE"}

(* C11: a boundary kernel that receives a boundary-condition kind it has no
   branch for ends in a fatal error: the kind_boundary of
   CIncNSSolver::BC_Wall_Generic and of CNSSolver::BC_HeatFlux_Wall_Generic,
   the inlet kind of the blowing kernel, and the Riemann/Giles data kind of
   the CTurbSolver dispatchers; none of them goes on to its vertex loop or
   returns normally. *)
C11_UnknownKindIsFatal ==
  /\ call.kernel \in {"Inc_Wall_Generic", "CNS_HeatFlux_Wall_Generic"}
       /\ call.kind_boundary \notin C11_Recognised(call.kernel)
     => bpc = "aborted" /\ blast.outcome = "error"
  /\ call.kernel = "CNS_Isothermal_Wall_Generic_Blowing"
       /\ call.Kind_Inlet \notin C11_Recognised(call.kernel)
     => bpc = "aborted" /\ blast.outcome = "error"
  /\ turbCall.routine # "none"
       /\ turbCall.Kind_Data \notin C11_RecognisedData(turbCall.routine)
     => turbCall.called = "error"

(* C12: a wall kernel called for a marker whose wall-function treatment is
   not NONE aborts with a fatal error before it handles any vertex; this
   covers BC_Wall_Generic and BC_ConjugateHeat_Interface of CIncNSSolver and
   BC_HeatFlux_Wall_Generic and BC_Isothermal_Wall_Generic of CNSSolver. *)
C12_WallFunctionIsFatal ==
  call.kernel \in {"Inc_Wall_Generic", "Inc_ConjugateHeat_Interface",
                   "CNS_HeatFlux_Wall_Generic", "CNS_Isothermal_Wall_Generic"}
    /\ call.WallFunction # "NO_WALL_FUNCTION"
  => bpc = "aborted" /\ blast.outcome = "error" /\ blast.point = 0

(* the wall temperature of the coupling laws at point p, from the thermal
   conductivity k of the kernel's solver, the distance to the normal
   neighbour, the temperature there and the conjugate data:
   HF_here = k * Viscosity_Ref / dist_ij *)
C13_Twall(p) ==
  LET g == Geo(p)
      k == IF bcfg.solver = "CNS"
             THEN ThermalConductivityOf(g.laminar_viscosity, g.eddy_viscosity)
             ELSE g.ThermalConductivity
      HF_here == RDiv(RMul(k, Viscosity_Ref), Distance(bcfg.nDim, g.Coord_i, g.Coord_j))
      Tconj == RDiv(g.Tconjugate, Temperature_Ref)
  IN IF bcfg.Kind_CHT_Coupling \in AveragedLaws
       THEN RDiv(RAdd(RMul(g.There, HF_here), RMul(Tconj, g.HF_FactorConjugate)),
                 RAdd(HF_here, g.HF_FactorConjugate))
       ELSE Tconj

(* C13: at a conjugate-heat-transfer interface the wall temperature of an
   owned vertex is (There*HF_here + Tconj*HF_conj)/(HF_here + HF_conj) with
   HF_here = thermal_conductivity*Viscosity_Ref/dist_ij under the averaged
   laws and Tconj under the direct laws, in the compressible and in the
   incompressible kernel alike. *)
C13_CHTWallTemperatureLaw ==
  ( /\ blast.outcome = "done"
    /\ call.cht_mode
    /\ call.kernel \in {"CNS_Isothermal_Wall_Generic", "Inc_ConjugateHeat_Interface"}
    /\ bcfg.Kind_CHT_Coupling \in AveragedLaws \cup DirectLaws )
  => blast.Twall = C13_Twall(blast.point)

(* the number of owned vertices over all partitions whose loop body ends in
   the given way *)
C14_Total(class) ==
  Cardinality({rp \in Ranks \X ParPoints : ClassOf(rp[1], rp[2], par.layout) = class})

(* C14: when SetTau_Wall_WF has returned under the full communication level,
   whatever the interleaving of the threads of each partition, the reduced
   notConvergedCounter is the number of owned vertices over all partitions
   that hit the iteration cap and the reduced smallYPlusCounter the number of
   owned vertices skipped for a small y+, also in a repeated call. *)
C14_ReducedCountsAreTotals ==
  ( /\ routine = "ParallelPass"
    /\ par.phase = "idle"
    /\ par.calls > 0
    /\ par.Comm_Level = "COMM_FULL" )
  => par.result = [notConverged |-> C14_Total("capped"), smallYPlus |-> C14_Total("small")]

(* a second call has returned with both counts positive after a thread other
   than the master counted a vertex *)
C14_Witness ==
  /\ routine = "ParallelPass"
  /\ par.phase = "idle"
  /\ par.calls = 2
  /\ par.Comm_Level = "COMM_FULL"
  /\ par.result.notConverged > 0
  /\ par.result.smallYPlus > 0
  /\ \E t \in Threads \ {MasterThread} :
        par.notConvergedCounter[t] + par.smallYPlusCounter[t] > 0

(* C15, as stated: every call of SetTau_Wall_WF and of Buffet_Monitoring that
   has returned has performed the all-reduce of its quantities exactly once,
   whatever the communication level. *)
C15_ReductionOncePerCall_AsStated ==
  /\ routine = "SetTau_Wall_WF" /\ pc = "idle" /\ nCalls > 0
     => allreduced = <<"notConvergedCounter", "smallYPlusCounter">>
  /\ routine = "Buffet_Monitoring" /\ mon.pc = "idle" /\ mon.calls > 0
     => allreduced = <<"Total_Buffet_Metric", "Surface_Buffet_Metric">>

(* C15: no all-reduce happens while the marker and vertex loops of a call
   run.  A call of Buffet_Monitoring that has returned has all-reduced the
   total and the per-surface metric once each.  A call of SetTau_Wall_WF that
   has returned has all-reduced each of its two counters once, by the master
   thread of each partition only, when the communication level is COMM_FULL,
   and has performed no all-reduce at all otherwise. *)
C15_ReductionOncePerCall ==
  /\ routine = "SetTau_Wall_WF" =>
       /\ pc # "idle" => allreduced = <<>>
       /\ pc = "idle" /\ nCalls > 0 =>
            allreduced = IF config.Comm_Level = "COMM_FULL"
                           THEN <<"notConvergedCounter", "smallYPlusCounter">> ELSE <<>>
  /\ routine = "Buffet_Monitoring" =>
       /\ mon.pc # "idle" => allreduced = <<>>
       /\ mon.pc = "idle" /\ mon.calls > 0 =>
            allreduced = <<"Total_Buffet_Metric", "Surface_Buffet_Metric">>
  /\ routine = "ParallelPass" =>
       /\ par.phase = "running" /\ par.iMarker <= NumMarker =>
            par.allreduce[par.rank] = <<>>
       /\ par.phase = "idle" /\ par.calls > 0 =>
            \A r \in Ranks :
              par.allreduce[r] = IF par.Comm_Level = "COMM_FULL"
                                   THEN <<"globalCounter1", "globalCounter2">> ELSE <<>>

(* a call of SetTau_Wall_WF that handled an owned vertex has returned without
   any all-reduce, the communication level not being COMM_FULL *)
C15_Witness ==
  /\ routine = "SetTau_Wall_WF"
  /\ pc = "idle"
  /\ nCalls > 0
  /\ config.Comm_Level # "COMM_FULL"
  /\ last.outcome # "none"
  /\ allreduced = <<>>

(* the step writes the residual, a Jacobian row, the old velocity or the old
   solution of point q *)
C16_KernelWrites(q) ==
  \/ LinSysRes'[q] # LinSysRes[q]
  \/ Jacobian'[q] # Jacobian[q]
  \/ Velocity_Old'[q] # Velocity_Old[q]
  \/ Solution_Old'[q] # Solution_Old[q]

(* C16: within one pass over a marker's vertex list, a step of a wall kernel
   writes residual, Jacobian rows, old velocity and old solution of the point
   of the vertex it handles only, a step of SetTau_Wall_WF the temperature
   and tau_wall of that point only, and when the vertex list is shared among
   threads every point is written by at most one thread, the one its vertex
   was given to. *)
C16_PointWrittenByOneThread ==
  [][ /\ \A q \in Points :
           /\ C16_KernelWrites(q) => bpc = "loop" /\ q = CurPoint
           /\ Temperature'[q] # Temperature[q] \/ Tau_Wall'[q] # Tau_Wall[q]
                => pc # "idle" /\ q = NodeOf(iMarker, iVertex)
      /\ routine = "ParallelPass" =>
           \A p \in ParPoints : Cardinality(par'.wrote[p]) <= 1 ]_vars

(* two points of one marker have been written, each by its own thread *)
C16_Witness ==
  /\ routine = "ParallelPass"
  /\ \E p, q \in ParPoints, t, u \in Threads :
        p # q /\ t # u /\ par.wrote[p] = {t} /\ par.wrote[q] = {u}

(* what the running wall kernel makes of residual res and Jacobian rows jac
   of the point it is about to handle *)
C17_Kernel(res, jac) ==
  IF call.kernel = "CNS_HeatFlux_Wall_Generic"
    THEN HeatFluxWallVertex(call.kind_boundary, call.PyCustom, bloc, CurPoint, res, jac,
                            Temperature[CurPoint])
  ELSE IF call.kernel = "CNS_Isothermal_Wall_Generic"
    THEN IsothermalWallVertex(call, bloc, CurPoint, res, jac)
  ELSE IncWallVertex(call, bloc, CurPoint, res, jac)

(* the edge contribution applied before the kernel step, and after it *)
C17_EdgeThenKernel ==
  LET e == AddEdgeFlux(LinSysRes[CurPoint], Jacobian[CurPoint], EdgeFlux(bcfg.nDim),
                       bcfg.implicit)
  IN C17_Kernel(e.res, e.jac)

C17_KernelThenEdge ==
  LET k == C17_Kernel(LinSysRes[CurPoint], Jacobian[CurPoint])
  IN AddEdgeFlux(k.res, k.jac, EdgeFlux(bcfg.nDim), bcfg.implicit)

(* rows i of residual and Jacobian agree in the two orders *)
C17_SameRows(rows) ==
  \A i \in rows :
    /\ C17_EdgeThenKernel.res[i] = C17_KernelThenEdge.res[i]
    /\ C17_EdgeThenKernel.jac.diag[i] = C17_KernelThenEdge.jac.diag[i]
    /\ C17_EdgeThenKernel.jac.off[i] = C17_KernelThenEdge.jac.off[i]

(* C17, as stated: for a wall point the residual and the Jacobian rows are
   the same whether an interior-edge contribution is applied before or after
   the contribution of the wall kernel. *)
C17_OrderIndependent_AsStated ==
  [][ OwnedVertexStep(WallKernels) /\ C17_Kernel(LinSysRes[CurPoint], Jacobian[CurPoint]).error = ""
      => C17_SameRows(Idx(nVarOf(bcfg.nDim))) ]_vars

(* C17: for a wall point handled by BC_HeatFlux_Wall_Generic,
   BC_Isothermal_Wall_Generic or the incompressible BC_Wall_Generic, the
   density (pressure) and energy entries of the residual and the rows of the
   Jacobian that belong to them are the same whether an interior-edge
   contribution is applied before or after the kernel; the momentum entries
   are not additive: whatever was applied before the kernel, the kernel
   leaves the momentum residual zero and, with an implicit scheme, the
   momentum rows equal to the identity, while a contribution applied after
   the kernel stays in them. *)
C17_OrderIndependent ==
  [][ OwnedVertexStep(WallKernels) /\ C17_Kernel(LinSysRes[CurPoint], Jacobian[CurPoint]).error = ""
      => /\ C17_SameRows({0, bcfg.nDim + 1})
         /\ \A i \in 1..bcfg.nDim :
              /\ C17_EdgeThenKernel.res[i] = Zero
              /\ C17_KernelThenEdge.res[i] = EdgeFlux(bcfg.nDim).residual[i]
              /\ bcfg.implicit =>
                   /\ C17_EdgeThenKernel.jac.diag[i] = UnitRow(nVarOf(bcfg.nDim), i)
                   /\ C17_EdgeThenKernel.jac.off[i] = ZeroVec(nVarOf(bcfg.nDim))
                   /\ C17_KernelThenEdge.jac.diag[i] # UnitRow(nVarOf(bcfg.nDim), i) ]_vars

(* an implicit wall kernel has handled an owned vertex and changed its
   energy residual *)
C17_Witness ==
  /\ blast.outcome = "done"
  /\ call.kernel \in WallKernels
  /\ bcfg.implicit
  /\ LinSysRes[blast.point][bcfg.nDim + 1] # I(7)
  /\ \A i \in 1..bcfg.nDim : LinSysRes[blast.point][i] = Zero

(* C18: with a scheme that is not implicit no step of a boundary kernel
   changes the Jacobian: neither its diagonal blocks nor its off-diagonal
   blocks, and no matrix operation is issued. *)
C18_ExplicitLeavesJacobian ==
  [][ ~bcfg.implicit =>
        \A q \in Points :
          /\ Jacobian'[q].diag = Jacobian[q].diag
          /\ Jacobian'[q].off = Jacobian[q].off
          /\ Jacobian'[q].ops = <<>> ]_vars

(* the data of the solver a vertex of a boundary routine may write *)
C19_PointData ==
  <<LinSysRes, Jacobian, Velocity_Old, Solution_Old, Temperature, Tau_Wall,
    YPlus, EddyViscWall, UTau, notConvergedCounter, smallYPlusCounter,
    Imposed_Temperature>>

(* C19: the step of a boundary kernel (wall kernels, blowing kernel,
   BC_Fluid_Interface) or of SetTau_Wall_WF that handles a vertex whose node
   is a halo node writes nothing: residual, Jacobian, old velocity and
   solution, temperature, tau_wall, the per-vertex caches and the counters
   keep their values. *)
C19_HaloVertexWritesNothing ==
  [][ /\ ( /\ bpc = "loop"
           /\ iVertexBC <= NumVertex
           /\ iVertexBC' = iVertexBC + 1
           /\ ~Domain[NodeOf(call.val_marker, iVertexBC)] )
          => UNCHANGED C19_PointData
      /\ ( /\ pc = "vertex"
           /\ iVertex <= NumVertex
           /\ iVertex' = iVertex + 1
           /\ ~Domain[NodeOf(iMarker, iVertex)] )
          => UNCHANGED C19_PointData ]_vars

(* BC_Fluid_Interface has just passed over a halo vertex of its marker, and
   the residual of that point is the one the call found *)
C19_Witness ==
  /\ call.kernel = "Turb_Fluid_Interface"
  /\ blast.outcome = "halo"
  /\ ~Domain[blast.point]
  /\ LinSysRes[blast.point] = ConstVec(TurbNVar, I(7))

(* C20: when the y-coordinate of the point is below EPS, ResidualAxisymmetric
   (of either SST source class) leaves both residual entries as it found
   them, and it never evaluates 1/Coord_i[1] with a coordinate below EPS. *)
C20_AxisSkipped ==
  (routine = "SSTSource" /\ sst.pc = "done") =>
     /\ RLt(sst.Coord_i1, EPS) =>
          (sst.Residual = sst.Residual_in /\ sst.divisors = {})
     /\ \A d \in sst.divisors : ~RLt(d, EPS)

(* the correction was called for a point on the axis and returned, and for
   the same inputs a point off the axis would have had its residual changed *)
C20_Witness ==
  /\ routine = "SSTSource"
  /\ sst.pc = "done"
  /\ sst.Coord_i1 = Zero
  /\ sst.Residual = SSTInputs.Residual
  /\ ResidualAxisymmetric(One, sst.Residual_in, SSTInputs).Residual # sst.Residual_in

(* the defining equation at the cached values, in its two parts:
   Density_Wall * U_Tau * WallDistMod / Lam_Visc_Wall - Y_Plus *)
C21_Defect ==
  LET in == LogLawInputs
  IN <<RSub(YPlusOf(in.Density_Wall, pure.U_Tau[1], in.WallDistMod, in.Lam_Visc_Wall),
            pure.Y_Plus[1]),
       RSub(YPlusOf(in.Density_Wall, pure.U_Tau[2], in.WallDistMod, in.Lam_Visc_Wall),
            pure.Y_Plus[2])>>

(* C21: when the Newton loop ends by its tolerance (not by the cap), the Y_Plus and U_Tau it
   caches satisfy rho_wall * U_Tau * WallDistMod / mu_lam = Y_Plus to within
   1e-10, that is 100 times the tolerance 1e-12 (log-law input). *)
C21_ConvergedSatisfiesEquation ==
  (routine = "NewtonLastPass" /\ pure.pc = "stored") =>
     /\ C21_Defect[1] = Zero
     /\ ~RLt(I(100), RAbs(C21_Defect[2]))

(* the loop ended with a residual of exactly the tolerance, and the update
   of that pass moved U_Tau *)
C21_Witness ==
  /\ routine = "NewtonLastPass"
  /\ pure.pc = "stored"
  /\ pure.diff = One
  /\ pure.U_Tau[2] # Zero
  /\ C21_Defect[2] # Zero

(* C22: SetTau_Wall_WF never changes the node temperature of a vertex of an
   ISOTHERMAL marker; on another marker the temperature is written only by a
   Newton step whose denominator 1 + Beta*U_plus - Gam*U_plus^2 exceeds EPS,
   with T_Normal / denum, and a step that does not write goes on with the
   wall temperature it had. *)
C22_TemperatureWrittenOnlyByCroccoBusemann ==
  [][ /\ (pc = "newton" /\ config.Marker[iMarker].KindBC = "ISOTHERMAL")
           => (Temperature' = Temperature /\ loc'.T_Wall = loc.T_Wall)
      /\ Temperature' # Temperature
           => /\ pc = "newton"
              /\ config.Marker[iMarker].KindBC # "ISOTHERMAL"
              /\ \E c \in NewtonCases :
                   /\ GtPow10(c.denum, 16)
                   /\ Temperature' = [Temperature EXCEPT ![NodeOf(iMarker, iVertex)] =
                                        RDiv(loc.T_Normal, c.denum)]
                   /\ loc'.T_Wall = RDiv(loc.T_Normal, c.denum)
      /\ (pc = "newton" /\ Temperature' = Temperature)
           => \/ loc'.T_Wall = loc.T_Wall
              \/ loc'.T_Wall = Temperature[NodeOf(iMarker, iVertex)] ]_vars

(* a Newton step on a heat-flux marker has written the Crocco-Busemann
   temperature to the node *)
C22_Witness ==
  /\ last.wroteT
  /\ config.Marker[last.marker].KindBC = "HEAT_FLUX"
  /\ Temperature[last.point] = I(4)

(* C23: the block a compressible wall kernel adds to the diagonal for a
   vertex, and the scratch block it was built in, are the same whether or
   not another vertex went through the reused scratch block before it. *)
C23_BlockIndependentOfEarlierVertices ==
  (routine = "ScratchReuse" /\ pure.pc = "done") =>
     /\ pure.after.jac = pure.alone.jac
     /\ pure.after.Jacobian_i = pure.alone.Jacobian_i

(* an implicit call met the vertex with a scratch block whose energy row an
   earlier vertex had filled, and added a block for it *)
C23_Witness ==
  /\ routine = "ScratchReuse"
  /\ pure.pc = "done"
  /\ pure.earlier # <<>>
  /\ bcfg.implicit
  /\ pure.scratch.alloc
  /\ pure.scratch.m[bcfg.nDim + 1] # ZeroVec(nVarOf(bcfg.nDim))
  /\ pure.scratch.m # pure.after.Jacobian_i.m
  /\ pure.after.jac.diag # Jacobian[pure.second].diag

(* C24 as stated: there are a grid velocity and a unit normal for which the
   2D shear-stress entries of the energy row differ from the 3D entries
   evaluated with zero third components. *)
C24_BranchesDiffer_AsStated ==
  routine = "DynamicGridShear" =>
    \E G \in ShearInputs.GridVel, n \in ShearInputs.UnitNormal, f \in ShearInputs.factor :
      \E j \in 0..2 : ShearRow(2, G, n, f)[j] # ShearRow(3, G, n, f)[j]

(* C24: for every grid velocity and unit normal the 2D shear-stress entries
   of the energy row (density, x- and y-momentum columns) equal the 3D
   entries evaluated with zero third components of grid velocity and unit
   normal, and the 3D entry of the z-momentum column is then zero. *)
C24_BranchesAgree ==
  (routine = "DynamicGridShear" /\ pure.pc = "done") =>
     /\ \A j \in 0..2 : pure.row2D[j] = pure.row3D[j]
     /\ pure.row3D[3] = Zero

(* both branches were evaluated for a moving vertex whose normal has two
   non-zero components, and all three shared entries are non-zero *)
C24_Witness ==
  /\ routine = "DynamicGridShear"
  /\ pure.pc = "done"
  /\ pure.GridVel = <<I(1), I(2)>>
  /\ pure.UnitNormal = <<R(3, 5), R(4, 5)>>
  /\ \A j \in 0..2 : pure.row2D[j] # Zero

(* C25: SetPrimitive_Variables raises no error for a non-physical state; it
   handles every point of its range, and the value it returns is the number
   of points of the range for which SetPrimVar reported a non-physical
   state. *)
C25_ReturnsNonPhysicalCount ==
  /\ routine = "SetPrimitive_Variables" /\ pure.pc # "idle" => pure.error = ""
  /\ (routine = "SetPrimitive_Variables" /\ pure.pc = "returned") =>
       /\ pure.visited = pure.first..pure.last
       /\ pure.returned =
            Cardinality({q \in pure.first..pure.last : ~pure.physical[q]})

(* a call has returned after meeting a non-physical point followed by a
   physical one *)
C25_Witness ==
  /\ routine = "SetPrimitive_Variables"
  /\ pure.pc = "returned"
  /\ pure.last > pure.first
  /\ ~pure.physical[pure.first]
  /\ pure.physical[pure.last]
  /\ pure.returned >= 1

(* the metric the last call integrates for a marker *)
C26_MarkerMetric(m) ==
  IF config.Marker[m].Viscous_Wall /\ mon.Monitoring[m]
    THEN SumOver([v \in Vertices |-> BuffetSensorTerm(m, v)], NumVertex)
    ELSE 0

(* C26: whatever the metrics held before and however many calls were made,
   when the marker loop of a call has ended the per-marker metrics are those
   of this call, the local total is their sum over the monitored viscous
   walls, and the metric of each monitored surface is the sum of the metrics
   of all markers carrying the tag of that surface. *)
C26_MetricsAreSumsOfLastCall ==
  (routine = "Buffet_Monitoring" /\ mon.pc = "marker" /\ mon.iMarker > NumMarker) =>
     /\ \A m \in Markers : mon.Buffet_Metric[m] = C26_MarkerMetric(m)
     /\ mon.Total_Buffet_Metric =
          SumOver([m \in Markers |-> C26_MarkerMetric(m)], NumMarker)
     /\ \A s \in DOMAIN MonitoringTags :
          mon.Surface_Buffet_Metric[s] =
            SumOver([m \in Markers |->
                       IF mon.Tag[m] = MonitoringTags[s] THEN C26_MarkerMetric(m) ELSE 0],
                    NumMarker)

(* C27: a vertex is counted as non-converged and given the fallback values
   only if the residual evaluated in its last Newton pass exceeds the
   tolerance 1e-12; a vertex whose last residual meets the tolerance keeps
   its computed y+, eddy viscosity and U_tau. *)
C27_FallbackOnlyAboveTolerance ==
  last.outcome = "capped" => ExceedsTol(last.lastDiff)

(* C28: when a wall boundary kernel call ends in a fatal configuration error
   (unknown boundary kind, unimplemented wall-function treatment, unknown
   CHT coupling method), that call has not modified the residual, the
   Jacobian or the old solution/velocity of any point before aborting: the
   first call of a run, once aborted, leaves all four as constructed. *)
C28_AbortedCallWroteNothing ==
  (bpc = "aborted" /\ nBCCalls = 0) =>
    \A p \in Points :
      /\ LinSysRes[p] = ConstVec(nVarOf(bcfg.nDim), I(7))
      /\ Jacobian[p] = [diag |-> ConstMat(nVarOf(bcfg.nDim), I(2)),
                        off |-> ConstMat(nVarOf(bcfg.nDim), I(3)),
                        ops |-> <<>>]
      /\ Velocity_Old[p] = ConstVec(bcfg.nDim, I(9))
      /\ Solution_Old[p] = ConstVec(nVarOf(bcfg.nDim), I(9))

(* the wall temperature of the coupling law in use at a point *)
C29_Twall(p) == IncCHTWallTemperature(bcfg.Kind_CHT_Coupling, p).Twall

(* C29: CIncNSSolver::BC_ConjugateHeat_Interface imposes the wall temperature
   strongly: with the energy equation active, after the call every owned
   vertex of the marker has energy residual exactly 0, old-solution
   temperature equal to the computed Twall and (implicit scheme) its energy
   Jacobian row deleted; with the energy equation inactive, the energy
   residual, the old-solution temperature and the energy Jacobian row are
   all left as they were before the call. *)
C29_StrongTemperature ==
  (bpc = "idle" /\ nBCCalls = 1 /\ call.kernel = "Inc_ConjugateHeat_Interface") =>
    \A v \in Vertices :
      LET p == NodeOf(call.val_marker, v)
          nDim == bcfg.nDim
          n == nVarOf(nDim)
      IN Domain[p] =>
           IF bcfg.energy
             THEN /\ LinSysRes[p][nDim + 1] = Zero
                  /\ Solution_Old[p][nDim + 1] = C29_Twall(p)
                  /\ bcfg.implicit =>
                        /\ Jacobian[p].diag[nDim + 1] = UnitRow(n, nDim + 1)
                        /\ Jacobian[p].off[nDim + 1] = ZeroVec(n)
             ELSE /\ LinSysRes[p][nDim + 1] = I(7)
                  /\ Solution_Old[p][nDim + 1] = I(9)
                  /\ Jacobian[p].diag[nDim + 1] = ConstVec(n, I(2))
                  /\ Jacobian[p].off[nDim + 1] = ConstVec(n, I(3))

C29_Witness ==
  /\ bpc = "idle"
  /\ nBCCalls = 1
  /\ call.kernel = "Inc_ConjugateHeat_Interface"
  /\ bcfg.energy
  /\ bcfg.implicit
  /\ bcfg.Kind_CHT_Coupling \in AveragedLaws
  /\ Domain[NodeOf(call.val_marker, 1)]
  /\ LinSysRes[NodeOf(call.val_marker, 1)][bcfg.nDim + 1] = Zero
  /\ Solution_Old[NodeOf(call.val_marker, 1)][bcfg.nDim + 1] # I(9)
  /\ Jacobian[NodeOf(call.val_marker, 1)].diag[bcfg.nDim + 1]
       = UnitRow(nVarOf(bcfg.nDim), bcfg.nDim + 1)

(* C30: after any sequence of SetTau_Wall_WF calls, every EddyViscWall cache
   entry written by the solver is strictly positive (at least 1e-6, or
   exactly 1 for a fallback vertex), and every UTau and YPlus entry written
   for a non-converged vertex is exactly its fallback value. *)
C30_CachedValuesPositiveOrFallback ==
  /\ \A m \in Markers, v \in Vertices :
        \/ EddyViscWall[m][v] = Zero
        \/ ~RLt(EddyViscWall[m][v], R(1, 1000000))
  /\ last.outcome \in {"capped", "converged"} =>
        ~RLt(EddyViscWall[last.marker][last.vertex], R(1, 1000000))
  /\ last.outcome = "capped" =>
        /\ EddyViscWall[last.marker][last.vertex] = FallbackEddyVisc
        /\ UTau[last.marker][last.vertex] = FallbackUTau
        /\ YPlus[last.marker][last.vertex] = FallbackYPlus

C30_Witness ==
  /\ last.outcome = "converged"
  /\ last.nNewton >= 1
  /\ EddyViscWall[last.marker][last.vertex] = R(1, 1000000)
  /\ UTau[last.marker][last.vertex] # FallbackUTau
  /\ notConvergedCounter = 0

=============================================================================
